---- MODULE Spec2Model ----
(***************************************************************************)
(* Model of the OAuth 2.1 authorization flow, the bearer gate and the      *)
(* session multiplexer of the UniFi MCP server (src/server.js).            *)
(*                                                                         *)
(* Every route handler is one action; /callback, the only handler that     *)
(* suspends (two fetches to the identity edge), is three actions.          *)
(* Time is a variable `now` (milliseconds, the value of Date.now()).       *)
(* randomUUID() is a generator of fresh identifiers UUIDS[nextUuid].       *)
(* `last` records the most recent request and the response it was given.   *)
(***************************************************************************)
EXTENDS Integers, Sequences, FiniteSets, TLC

VARIABLES
    oauthEnabled,       \* OAUTH_ENABLED, fixed at start-up
    registeredClients,  \* client_id -> [client_secret, redirect_uris]
    pendingAuth,        \* state -> pending authorization record
    authCodes,          \* code -> authorization code record
    accessTokens,       \* token -> access token record
    transports,         \* session id -> transport
    openTransports,     \* transports constructed and not yet closed
    inflight,           \* /callback requests suspended on the identity edge
    nextUuid,           \* index of the next value randomUUID() returns
    now,                \* Date.now()
    mintLog,            \* history: every code, token and session minted
    last                \* the last request handled and its response

vars == <<oauthEnabled, registeredClients, pendingAuth, authCodes, accessTokens,
          transports, openTransports, inflight, nextUuid, now, mintLog, last>>

tables == <<registeredClients, pendingAuth, authCodes, accessTokens, transports>>

----------------------------------------------------------------------------
(* Bounds *)

MaxFlowUuid == 3    \* randomUUID() calls in a run of Spec
MaxAuthzUuid == 3   \* randomUUID() calls in a run of SpecAuthorize
MaxAuthzPending == 1 \* pending authorizations in a run of SpecAuthorize
MaxMcpUuid == 5     \* randomUUID() calls in a run of SpecMcp
MaxTicks == 2       \* the clock advances MaxTicks times
MaxInflight == 2    \* /callback requests suspended at the same time
MaxPending == 2     \* authorization round trips the clients keep open at once
MaxConfigUuid == 3  \* randomUUID() calls in a run of SpecConfig
MaxRedeemUuid == 4  \* randomUUID() calls in a run of SpecRedeem
MaxCallbackUuid == 4 \* randomUUID() calls in a run of SpecCallback
MaxTokenUuid == 5   \* randomUUID() calls in a run of SpecToken
MaxFrameUuid == 6   \* randomUUID() calls in a run of SpecFrame
MaxLiveUuid == 4    \* randomUUID() calls in a run of SpecLive
MaxSessionUuid == 7 \* randomUUID() calls in a run of SpecSession
MaxRedirectUuid == 5 \* randomUUID() calls in a run of SpecRedirect
MaxExpiryUuid == 3  \* randomUUID() calls in a run of SpecExpiry
MaxExpirySteps == 8 \* the clock of SpecExpiry runs to this many code lifetimes

(* Program constants (milliseconds) *)

PENDING_TTL == 600000
CODE_TTL == 600000
TOKEN_TTL == 3600000

NONE == "<absent>"  \* undefined: a missing parameter or header

UUIDS == <<"uuid-1", "uuid-2", "uuid-3", "uuid-4", "uuid-5", "uuid-6",
           "uuid-7", "uuid-8", "uuid-9">>

\* the identifiers randomUUID() has returned so far
Issued == {UUIDS[i] : i \in 1..(nextUuid - 1)}

----------------------------------------------------------------------------
(* new URL(x).hostname, as a sequence of labels; <<>> when new URL throws *)

URLHostname(u) ==
    CASE u = "http://localhost:9999/cb"     -> <<"localhost">>
      [] u = "http://127.0.0.1:8080/cb"     -> <<"127", "0", "0", "1">>
      [] u = "https://evil.example/cb"      -> <<"evil", "example">>
      [] u = "https://app.example/cb"       -> <<"app", "example">>
      [] u = "http://localhost.evil.example/cb" -> <<"localhost", "evil", "example">>
      [] u = "http://localhost:3000"        -> <<"localhost">>
      [] u = "https://mcp.example.org"      -> <<"mcp", "example", "org">>
      [] u = "https://dash.cloudflare.com"  -> <<"dash", "cloudflare", "com">>
      [] u = "https://team.cloudflareaccess.com" -> <<"team", "cloudflareaccess", "com">>
      [] u = "https://evilcloudflare.com"   -> <<"evilcloudflare", "com">>
      [] u = "https://attacker.example"     -> <<"attacker", "example">>
      [] OTHER                              -> <<>>

BASE_URL == "https://mcp.example.org"

URLParses(u) == URLHostname(u) # <<>>

IsLoopbackMutAny(h) == h # <<>>

\* hostname === 'localhost' || hostname === '127.0.0.1'
IsLoopback(h) == h = <<"localhost">> \/ h = <<"127", "0", "0", "1">>

\* hostname.endsWith('.' + d1 + '.' + d2)
EndsWithDomain(h, d1, d2) ==
    /\ Len(h) >= 3
    /\ h[Len(h) - 1] = d1
    /\ h[Len(h)] = d2

OriginAllowedMutAll(origin) == TRUE

\* validateOrigin: TRUE iff it calls next()
OriginAllowed(origin) ==
    \/ origin = NONE
    \/ /\ URLParses(origin)
       /\ LET h == URLHostname(origin) IN
            \/ IsLoopback(h)
            \/ h = URLHostname(BASE_URL)
            \/ EndsWithDomain(h, "cloudflare", "com")
            \/ EndsWithDomain(h, "cloudflareaccess", "com")

----------------------------------------------------------------------------
(* createHash('sha256').update(v).digest('base64url'); update(undefined)   *)
(* throws a TypeError, written "<throws>"                                  *)

S256(v) ==
    CASE v = "verifier-A" -> "challenge-A"
      [] v = "verifier-B" -> "challenge-B"
      [] OTHER            -> "<throws>"

----------------------------------------------------------------------------
(* Map helpers *)

Has(m, k) == k \in DOMAIN m
Put(m, k, v) == [x \in (DOMAIN m) \cup {k} |-> IF x = k THEN v ELSE m[x]]
Del(m, k) == [x \in (DOMAIN m) \ {k} |-> m[x]]
EmptyMap == [x \in {} |-> NONE]

IncludesMutAlways(seq, x) == TRUE

\* Array.prototype.includes
Includes(seq, x) == \E i \in 1..Len(seq) : seq[i] = x

\* a response: status, OAuth/JSON error code, the WWW-Authenticate challenge,
\* the redirect target, the identifier it carries, the session it was routed
\* to, and the JSON body of a success response
Resp(status, error) ==
    [status |-> status, error |-> error, wwwAuth |-> NONE,
     location |-> NONE, carries |-> NONE, state |-> NONE, routed |-> NONE,
     body |-> NONE]

Answer(op, req, resp) == [op |-> op, req |-> req, resp |-> resp]

----------------------------------------------------------------------------
(* Initial state: the module-level Maps are empty (server.js 610-614)      *)

NULL == "<null>"    \* client_secret: null
SUSPENDED == 0      \* status of a request that has not been answered yet

\* no request is being observed
Idle == Answer("idle", [path |-> NONE], Resp(SUSPENDED, NONE))

Init ==
    /\ oauthEnabled \in BOOLEAN
    /\ registeredClients = EmptyMap
    /\ pendingAuth = EmptyMap
    /\ authCodes = EmptyMap
    /\ accessTokens = EmptyMap
    /\ transports = EmptyMap
    /\ openTransports = {}
    /\ inflight = {}
    /\ nextUuid = 1
    /\ now = 0
    /\ mintLog = {}
    /\ last = Idle

----------------------------------------------------------------------------
(* POST /register *)

RegisterOkMutAllowEmpty(redirect_uris) == redirect_uris.kind = "array"

\* redirect_uris of the body: absent, a string (not an array), or an array
RegisterOk(redirect_uris) ==
    /\ redirect_uris.kind = "array"
    /\ Len(redirect_uris.items) # 0

\* res.status(201).json({ client_id, client_secret, redirect_uris, ... })
RegisterBody(client_id, client_secret, redirect_uris) ==
    [client_id |-> client_id, client_secret |-> client_secret,
     redirect_uris |-> redirect_uris]

Register(redirect_uris) ==
    LET req == [redirect_uris |-> redirect_uris] IN
    IF ~RegisterOk(redirect_uris)
    THEN /\ last' = Answer("register", req, Resp(400, "invalid_request"))
         /\ UNCHANGED <<oauthEnabled, tables, openTransports, inflight, nextUuid,
                        now, mintLog>>
    ELSE /\ LET client_id == UUIDS[nextUuid]
                client_secret == UUIDS[nextUuid + 1]
            IN /\ registeredClients' = Put(registeredClients, client_id,
                      [client_secret |-> client_secret,
                       redirect_uris |-> redirect_uris.items])
               /\ last' = Answer("register", req,
                      [Resp(201, NONE) EXCEPT
                          !.carries = client_id,
                          !.state = client_secret,
                          !.body = RegisterBody(client_id, client_secret,
                                                redirect_uris.items)])
         /\ nextUuid' = nextUuid + 2
         /\ UNCHANGED <<oauthEnabled, pendingAuth, authCodes, accessTokens,
                        transports, openTransports, inflight, now, mintLog>>

----------------------------------------------------------------------------
(* GET /authorize *)

PkceOkMutAnyMethod(code_challenge, code_challenge_method) ==
    code_challenge # NONE /\ code_challenge_method # NONE

\* !( !code_challenge || code_challenge_method !== 'S256' )
PkceOk(code_challenge, code_challenge_method) ==
    code_challenge # NONE /\ code_challenge_method = "S256"

LoopbackUriMutPrefix(redirect_uri) ==
    URLParses(redirect_uri) /\ Head(URLHostname(redirect_uri)) \in {"localhost", "127"}

\* the redirect_uri parses and its host is localhost or 127.0.0.1
LoopbackUri(redirect_uri) ==
    URLParses(redirect_uri) /\ IsLoopback(URLHostname(redirect_uri))

OauthDisabledMutNever == FALSE

\* !OAUTH_ENABLED
OauthDisabled == ~oauthEnabled

\* The handler up to its response: the registry it leaves, the response,
\* and whether it goes on to store a pending authorization and redirect.
WithRedirectUriMutReplace(client, redirect_uri) ==
    [client EXCEPT !.redirect_uris = <<redirect_uri>>]

\* client.redirect_uris.push(redirect_uri)
WithRedirectUri(client, redirect_uri) ==
    [client EXCEPT !.redirect_uris = Append(client.redirect_uris, redirect_uri)]

AuthorizeOutcome(client_id, redirect_uri, code_challenge, code_challenge_method) ==
    LET refuse(reg, status, error) ==
            [reg |-> reg, resp |-> Resp(status, error), proceed |-> FALSE]
        known == Has(registeredClients, client_id)
    IN
    IF client_id = NONE \/ redirect_uri = NONE
    THEN refuse(registeredClients, 400, "invalid_request")
    ELSE IF ~known /\ ~LoopbackUri(redirect_uri)
    THEN refuse(registeredClients, 400, "invalid_request")
    ELSE
      LET client1 == IF known THEN registeredClients[client_id]
                     ELSE [client_secret |-> NULL,
                           redirect_uris |-> <<redirect_uri>>]
          reg1 == Put(registeredClients, client_id, client1)
      IN
      IF ~Includes(client1.redirect_uris, redirect_uri) /\ ~LoopbackUri(redirect_uri)
      THEN refuse(reg1, 400, "invalid_request")
      ELSE
        LET client2 == IF Includes(client1.redirect_uris, redirect_uri)
                       THEN client1
                       ELSE WithRedirectUri(client1, redirect_uri)
            reg2 == Put(reg1, client_id, client2)
        IN
        IF ~PkceOk(code_challenge, code_challenge_method)
        THEN refuse(reg2, 400, "invalid_request")
        ELSE IF OauthDisabled
        THEN refuse(reg2, 503, "server_error")
        ELSE [reg |-> reg2, resp |-> Resp(302, NONE), proceed |-> TRUE]

CF_AUTH_URL == "https://team.cloudflareaccess.com/cdn-cgi/access/sso/oidc/authorization"

Authorize(client_id, redirect_uri, state, code_challenge, code_challenge_method) ==
    LET req == [client_id |-> client_id, redirect_uri |-> redirect_uri,
                state |-> state, code_challenge |-> code_challenge,
                code_challenge_method |-> code_challenge_method]
        out == AuthorizeOutcome(client_id, redirect_uri, code_challenge,
                                code_challenge_method)
    IN
    /\ registeredClients' = out.reg
    /\ IF out.proceed
       THEN /\ LET authState == UUIDS[nextUuid] IN
               /\ pendingAuth' = Put(pendingAuth, authState,
                      [client_id |-> client_id,
                       redirect_uri |-> redirect_uri,
                       code_challenge |-> code_challenge,
                       code_challenge_method |-> code_challenge_method,
                       original_state |-> state,
                       expires |-> now + PENDING_TTL])
               /\ last' = Answer("authorize", req,
                      [out.resp EXCEPT !.location = CF_AUTH_URL,
                                       !.state = authState])
            /\ nextUuid' = nextUuid + 1
       ELSE /\ last' = Answer("authorize", req, out.resp)
            /\ UNCHANGED <<pendingAuth, nextUuid>>
    /\ UNCHANGED <<oauthEnabled, authCodes, accessTokens, transports,
                   openTransports, inflight, now, mintLog>>

----------------------------------------------------------------------------
(* Expiry: `record.expires < Date.now()` *)

ExpiredMutInclusive(record, t) == record.expires <= t

ExpiredMutNever(record, t) == FALSE

Expired(record, t) == record.expires < t

----------------------------------------------------------------------------
(* GET /callback: the synchronous part, up to the first await *)

PendingAfterLookupMutKeep(state) == pendingAuth

\* pendingAuth.delete(state), on the invalid and on the valid path
PendingAfterLookup(state) == Del(pendingAuth, state)

\* one more suspended request; `dup` tells apart requests that are otherwise
\* equal
SuspendMutDrop(set, f) == set

Suspend(set, f) ==
    LET used == {g.dup : g \in {x \in set : [x EXCEPT !.dup = 1] = f}}
        k == CHOOSE n \in 1..(Cardinality(set) + 1) : n \notin used
    IN set \cup {[f EXCEPT !.dup = k]}

EdgeRefusedMutIgnore(error) == FALSE

\* if (error): the query carries an error parameter that is not empty
EdgeRefused(error) == error # NONE /\ error # ""

CallbackBegin(code, state, error) ==
    LET req == [code |-> code, state |-> state, error |-> error,
                exchange |-> NONE, userinfo |-> NONE, email |-> NONE]
    IN
    IF EdgeRefused(error)
    THEN /\ last' = Answer("callback", req, Resp(400, error))
         /\ UNCHANGED <<oauthEnabled, tables, openTransports, inflight, nextUuid,
                        now, mintLog>>
    ELSE IF ~Has(pendingAuth, state) \/ Expired(pendingAuth[state], now)
    THEN /\ pendingAuth' = PendingAfterLookup(state)
         /\ last' = Answer("callback", req, Resp(400, "invalid_state"))
         /\ UNCHANGED <<oauthEnabled, registeredClients, authCodes, accessTokens,
                        transports, openTransports, inflight, nextUuid, now,
                        mintLog>>
    ELSE /\ Cardinality(inflight) < MaxInflight
         /\ pendingAuth' = PendingAfterLookup(state)
         /\ inflight' = Suspend(inflight,
                [req |-> req, pending |-> pendingAuth[state], pc |-> "exchange",
                 dup |-> 1])
         /\ last' = Answer("callback", req, Resp(SUSPENDED, NONE))
         /\ UNCHANGED <<oauthEnabled, registeredClients, authCodes, accessTokens,
                        transports, openTransports, nextUuid, now, mintLog>>

(* the fetch of CF_TOKEN_URL settles: ok, not ok, or it (or reading its    *)
(* body) throws                                                            *)
CallbackExchange(f, outcome) ==
    LET req == [f.req EXCEPT !.exchange = outcome] IN
    /\ f \in inflight
    /\ f.pc = "exchange"
    /\ CASE outcome = "ok" ->
              /\ inflight' = Suspend(inflight \ {f},
                     [f EXCEPT !.pc = "userinfo", !.req = req, !.dup = 1])
              /\ last' = Answer("callback", req, Resp(SUSPENDED, NONE))
         [] outcome = "not_ok" ->
              /\ inflight' = inflight \ {f}
              /\ last' = Answer("callback", req, Resp(400, "token_exchange_failed"))
         [] OTHER ->
              /\ inflight' = inflight \ {f}
              /\ last' = Answer("callback", req, Resp(500, "internal_error"))
    /\ UNCHANGED <<oauthEnabled, tables, openTransports, nextUuid, now, mintLog>>

\* userResponse.ok ? (await userResponse.json()).email : 'unknown'
UserOf(outcome, email) == IF outcome = "ok" THEN email ELSE "unknown"

RedirectStateMutInternal(original_state, state) == state

\* if (pending.original_state) redirectUrl.searchParams.set('state', ...):
\* the state parameter of the redirect, NONE when it has none.  `state` is
\* the internal state token the request came with; "" is falsy.
RedirectState(original_state, state) ==
    IF original_state # NONE /\ original_state # ""
    THEN original_state
    ELSE NONE

(* the fetch of CF_USERINFO_URL settles; the code is minted and the        *)
(* browser is redirected                                                   *)
CallbackUserInfo(f, outcome, email) ==
    LET req == [f.req EXCEPT !.userinfo = outcome,
                             !.email = IF outcome = "ok" THEN email ELSE NONE]
    IN
    /\ f \in inflight
    /\ f.pc = "userinfo"
    /\ inflight' = inflight \ {f}
    /\ IF outcome = "throws"
       THEN /\ last' = Answer("callback", req, Resp(500, "internal_error"))
            /\ UNCHANGED <<authCodes, nextUuid, mintLog>>
       ELSE /\ LET mcpCode == UUIDS[nextUuid]
                   pending == f.pending
               IN /\ authCodes' = Put(authCodes, mcpCode,
                         [client_id |-> pending.client_id,
                          user |-> UserOf(outcome, email),
                          redirect_uri |-> pending.redirect_uri,
                          code_challenge |-> pending.code_challenge,
                          expires |-> now + CODE_TTL])
                  /\ mintLog' = mintLog \cup
                         {[kind |-> "code", id |-> mcpCode,
                           from |-> f.req.state,
                           user |-> authCodes'[mcpCode].user, at |-> now,
                           client_id |-> authCodes'[mcpCode].client_id,
                           redirect_uri |-> authCodes'[mcpCode].redirect_uri,
                           code_challenge |->
                               authCodes'[mcpCode].code_challenge]}
                  /\ last' = Answer("callback", req,
                         IF URLParses(pending.redirect_uri)
                         THEN [Resp(302, NONE) EXCEPT
                                  !.location = pending.redirect_uri,
                                  !.carries = mcpCode,
                                  !.state = RedirectState(
                                      pending.original_state, f.req.state)]
                         ELSE Resp(500, "internal_error"))
            /\ nextUuid' = nextUuid + 1
    /\ UNCHANGED <<oauthEnabled, registeredClients, pendingAuth, accessTokens,
                   transports, openTransports, now>>

----------------------------------------------------------------------------
(* POST /token *)

\* the code table after a failed client_id or PKCE check: the handler
\* returns at 865 / 871 without reaching authCodes.delete at 874
CodesAfterFailedCheck(code) == authCodes

CodesAfterRedemptionMutKeep(code) == authCodes

\* authCodes.delete(code) once every check has passed
CodesAfterRedemption(code) == Del(authCodes, code)

ClientMatchesMutAny(authCode, body) == TRUE

ClientMatchesMutBindRedirect(authCode, body) ==
    authCode.client_id = body.client_id /\ authCode.redirect_uri = body.redirect_uri

\* !(authCode.client_id !== client_id): of the request body, the client
\* validation reads client_id only
ClientMatches(authCode, body) == authCode.client_id = body.client_id

TokenRecordMutNoUser(authCode, client_id, t) ==
    [client_id |-> client_id, user |-> "unknown", expires |-> t + TOKEN_TTL]

TokenRecordMutCodeLifetime(authCode, client_id, t) ==
    [client_id |-> client_id, user |-> authCode.user, expires |-> t + CODE_TTL]

\* { client_id, user: authCode.user, expires: Date.now() + 3600 * 1000 }
TokenRecord(authCode, client_id, t) ==
    [client_id |-> client_id, user |-> authCode.user, expires |-> t + TOKEN_TTL]

\* res.json({ access_token, token_type: 'Bearer', expires_in: 3600 })
TokenBody(access_token) ==
    [access_token |-> access_token, token_type |-> "Bearer", expires_in |-> 3600]

GrantSupportedMutAdvertised(grant_type) ==
    grant_type \in {"authorization_code", "refresh_token"}

\* !(grant_type !== 'authorization_code')
GrantSupported(grant_type) == grant_type = "authorization_code"

\* The handler up to its response, for the request body `body`
\* { grant_type, code, redirect_uri, client_id, client_secret, code_verifier }:
\* the tables it leaves, the response, and whether it mints a token (the
\* token is then UUIDS[nextUuid]).
TokenOutcome(body) ==
    LET refuse(codes, status, error) ==
            [authCodes |-> codes, accessTokens |-> accessTokens,
             resp |-> Resp(status, error), mints |-> FALSE]
        code == body.code
    IN
    IF ~GrantSupported(body.grant_type)
    THEN refuse(authCodes, 400, "unsupported_grant_type")
    ELSE IF ~Has(authCodes, code) \/ Expired(authCodes[code], now)
    THEN refuse(Del(authCodes, code), 400, "invalid_grant")
    ELSE IF ~ClientMatches(authCodes[code], body)
    THEN refuse(CodesAfterFailedCheck(code), 400, "invalid_client")
    ELSE IF S256(body.code_verifier) = "<throws>"
    THEN \* TypeError out of a synchronous handler: the error handler at 1125
         refuse(authCodes, 500, "Internal server error")
    ELSE IF S256(body.code_verifier) # authCodes[code].code_challenge
    THEN refuse(CodesAfterFailedCheck(code), 400, "invalid_grant")
    ELSE LET access_token == UUIDS[nextUuid] IN
         [authCodes |-> CodesAfterRedemption(code),
          accessTokens |-> Put(accessTokens, access_token,
              TokenRecord(authCodes[code], body.client_id, now)),
          resp |-> [Resp(200, NONE) EXCEPT !.carries = access_token,
                                          !.body = TokenBody(access_token)],
          mints |-> TRUE]

TokenPost(body) ==
    LET out == TokenOutcome(body) IN
    /\ authCodes' = out.authCodes
    /\ accessTokens' = out.accessTokens
    /\ last' = Answer("token", body, out.resp)
    /\ IF out.mints
       THEN /\ mintLog' = mintLog \cup
                   {[kind |-> "token", id |-> UUIDS[nextUuid],
                     from |-> body.code,
                     user |-> out.accessTokens[UUIDS[nextUuid]].user,
                     at |-> now,
                     client_id |-> out.accessTokens[UUIDS[nextUuid]].client_id,
                     redirect_uri |-> NONE, code_challenge |-> NONE]}
            /\ nextUuid' = nextUuid + 1
       ELSE UNCHANGED <<mintLog, nextUuid>>
    /\ UNCHANGED <<oauthEnabled, registeredClients, pendingAuth, transports,
                   openTransports, inflight, now>>

\* a request that sends neither redirect_uri nor client_secret
Token(grant_type, code, client_id, code_verifier) ==
    TokenPost([grant_type |-> grant_type, code |-> code,
               redirect_uri |-> NONE, client_id |-> client_id,
               client_secret |-> NONE, code_verifier |-> code_verifier])

----------------------------------------------------------------------------
(* ALL /mcp: validateOrigin, requireAuth, then the handler.                *)
(* An OPTIONS request is answered 204 by the CORS middleware (576-607)     *)
(* before routing and never reaches this route.                            *)

NoAuth == [scheme |-> NONE, credentials |-> NONE]

StartsWithBearerMutAnyScheme(authorization) == authorization.scheme # NONE

\* authHeader && authHeader.startsWith('Bearer ')
StartsWithBearer(authorization) == authorization.scheme = "Bearer"

\* requireAuth calls next(): the header is a bearer header and its token is
\* stored and not expired
BearerAdmits(authorization) ==
    /\ StartsWithBearer(authorization)
    /\ Has(accessTokens, authorization.credentials)
    /\ ~Expired(accessTokens[authorization.credentials], now)

\* accessTokens.delete(token) of requireAuth, reached only with a bearer header
TokensAfterGateMutPurgeAll(authorization) ==
    IF ~BearerAdmits(authorization) THEN EmptyMap ELSE accessTokens

TokensAfterGate(authorization) ==
    IF StartsWithBearer(authorization) /\ ~BearerAdmits(authorization)
    THEN Del(accessTokens, authorization.credentials)
    ELSE accessTokens

RESOURCE_METADATA_URL ==
    "https://mcp.example.org/.well-known/oauth-protected-resource/mcp"

\* res.set('WWW-Authenticate', wwwAuth)
Challenge(resp) ==
    [resp EXCEPT !.wwwAuth = [resource_metadata |-> RESOURCE_METADATA_URL,
                              scope |-> "mcp:tools"]]

SessionsAfterDeleteMutKeep(mcpSessionId) == transports

\* transports.delete(mcpSessionId)
SessionsAfterDelete(mcpSessionId) == Del(transports, mcpSessionId)

SessionsAfterCloseMutKeep(t) == transports

\* transport.onclose: transports.delete(newSessionId)
SessionsAfterClose(t) == Del(transports, t)

NewSessionIdMutReuseHeader(mcpSessionId) ==
    IF mcpSessionId # NONE THEN mcpSessionId ELSE UUIDS[nextUuid]

\* const newSessionId = randomUUID(), whatever the mcp-session-id header
NewSessionId(mcpSessionId) == UUIDS[nextUuid]

\* GET: status of `!mcpSessionId || !transports.has(mcpSessionId)`
GetNoSessionStatus(mcpSessionId) == 400

AcceptsGet(accept) == "text/event-stream" \in accept

AcceptsPostMutAny(accept) == TRUE

AcceptsPost(accept) == "application/json" \in accept \/ "text/event-stream" \in accept

\* handing the request to a transport: the transport writes the response
SessionActiveMutOwner(mcpSessionId, user) ==
    /\ Has(transports, mcpSessionId)
    /\ \E h \in mintLog :
          h.kind = "session" /\ h.id = mcpSessionId /\ h.user = user

\* transports.get(mcpSessionId) / transports.has(mcpSessionId): the lookup
\* is by identifier alone; `user` (req.user) is only logged
SessionActive(mcpSessionId, user) == Has(transports, mcpSessionId)

Routed(mcpSessionId) == [Resp(200, NONE) EXCEPT !.routed = mcpSessionId]

Mcp(method, origin, authorization, mcpSessionId, accept, bodyMethod) ==
    LET req == [method |-> method, origin |-> origin,
                authorization |-> authorization, mcpSessionId |-> mcpSessionId,
                accept |-> accept, bodyMethod |-> bodyMethod]
        keep == <<oauthEnabled, registeredClients, pendingAuth, authCodes,
                  inflight, now>>
        answer(resp) ==
            /\ last' = Answer("mcp", req, resp)
            /\ UNCHANGED <<transports, openTransports, nextUuid, mintLog>>
        user == accessTokens[authorization.credentials].user
    IN
    /\ UNCHANGED keep
    /\ IF ~OriginAllowed(origin)
       THEN /\ answer(Resp(403, "forbidden"))
            /\ UNCHANGED accessTokens
       ELSE IF ~BearerAdmits(authorization)
       THEN /\ accessTokens' = TokensAfterGate(authorization)
            /\ answer(Challenge(Resp(401, "invalid_token")))
       ELSE
         /\ UNCHANGED accessTokens
         /\ CASE method = "DELETE" ->
                   IF mcpSessionId = NONE
                   THEN answer(Resp(400, "Missing mcp-session-id header"))
                   ELSE IF SessionActive(mcpSessionId, user)
                   THEN /\ transports' = SessionsAfterDelete(mcpSessionId)
                        /\ last' = Answer("mcp", req, Resp(200, NONE))
                        /\ UNCHANGED <<openTransports, nextUuid, mintLog>>
                   ELSE answer(Resp(404, "Session not found"))
              [] method = "GET" ->
                   IF ~AcceptsGet(accept)
                   THEN answer(Resp(406, "Not Acceptable"))
                   ELSE IF mcpSessionId = NONE
                           \/ ~SessionActive(mcpSessionId, user)
                   THEN answer(Resp(GetNoSessionStatus(mcpSessionId),
                                    "Session not found"))
                   ELSE answer(Routed(mcpSessionId))
              [] method = "POST" ->
                   IF ~AcceptsPost(accept)
                   THEN answer(Resp(406, "Not Acceptable"))
                   ELSE IF bodyMethod = "initialize"
                   THEN /\ LET newSessionId == NewSessionId(mcpSessionId) IN
                           /\ transports' = Put(transports, newSessionId, newSessionId)
                           /\ openTransports' = openTransports \cup {newSessionId}
                           /\ mintLog' = mintLog \cup
                                  {[kind |-> "session", id |-> newSessionId,
                                    from |-> authorization.credentials,
                                    user |-> accessTokens[
                                        authorization.credentials].user,
                                    at |-> now, client_id |-> NONE,
                                    redirect_uri |-> NONE,
                                    code_challenge |-> NONE]}
                           /\ last' = Answer("mcp", req,
                                  [Routed(newSessionId) EXCEPT
                                      !.carries = newSessionId])
                        /\ nextUuid' = nextUuid + 1
                   ELSE IF mcpSessionId = NONE
                   THEN answer(Resp(400, "Missing mcp-session-id header"))
                   ELSE IF ~SessionActive(mcpSessionId, user)
                   THEN answer(Resp(404, "Session not found"))
                   ELSE answer(Routed(mcpSessionId))
              [] OTHER -> answer(Resp(405, "Method not allowed"))

----------------------------------------------------------------------------
(* GET /health (public).  A JSON value is its type and its text.  The      *)
(* handler has one statement, res.json of an object literal; `fault` is a  *)
(* string-typed field put into that object by fault injection (NONE: no    *)
(* fault), the case the leak guard is specified for.                       *)

JsonString(text) == [type |-> "string", text |-> text]
JsonBoolean(b) == [type |-> "boolean", text |-> IF b THEN "true" ELSE "false"]

UNIFI_ENABLED == FALSE  \* the controller is not configured

\* { status, timestamp, unifiEnabled, oauthEnabled }
HealthPayload(fault) ==
    LET fields == {"status", "timestamp", "unifiEnabled", "oauthEnabled"}
                  \cup (IF fault = NONE THEN {} ELSE {fault})
    IN [f \in fields |->
          CASE f = "status" -> JsonString("ok")
            [] f = "timestamp" -> JsonString("<ISO time>")
            [] f = "unifiEnabled" -> JsonBoolean(UNIFI_ENABLED = TRUE)
            [] f = "oauthEnabled" -> JsonBoolean(oauthEnabled = TRUE)
            [] OTHER -> JsonString("<secret>")]

\* res.json(payload): nothing looks at the payload before it is sent
Health(fault) ==
    /\ last' = Answer("health", [payload |-> HealthPayload(fault)],
                  [Resp(200, NONE) EXCEPT !.body = HealthPayload(fault)])
    /\ UNCHANGED <<oauthEnabled, tables, openTransports, inflight, nextUuid,
                   now, mintLog>>

(* transport.onclose: the transport reports closure *)
TransportClose(t) ==
    /\ t \in openTransports
    /\ openTransports' = openTransports \ {t}
    /\ transports' = SessionsAfterClose(t)
    /\ UNCHANGED <<oauthEnabled, registeredClients, pendingAuth, authCodes,
                   accessTokens, inflight, nextUuid, now, mintLog, last>>

(* time passes: the clock advances by d, at most MaxTicks times *)
Tick(d) ==
    /\ now + d <= MaxTicks * d
    /\ now' = now + d
    /\ UNCHANGED <<oauthEnabled, tables, openTransports, inflight, nextUuid,
                   mintLog, last>>

----------------------------------------------------------------------------
(* Observation: `last` holds one request and its response at a time.  The  *)
(* next request is taken up once the response has been written.            *)

Quiet == last.op = "idle"

ResponseSent ==
    /\ ~Quiet
    /\ last' = Idle
    /\ UNCHANGED <<oauthEnabled, tables, openTransports, inflight, nextUuid,
                   now, mintLog>>

----------------------------------------------------------------------------
(* The requests the environment sends *)

Loopback1 == "http://localhost:9999/cb"
Loopback2 == "http://127.0.0.1:8080/cb"

RedirectUris ==
    {NONE, Loopback1, Loopback2, "https://evil.example/cb",
     "http://localhost.evil.example/cb", "not a url"}

RegisterBodies ==
    {[kind |-> "absent", items |-> <<>>],
     [kind |-> "string", items |-> <<"https://app.example/cb">>],
     [kind |-> "array", items |-> <<>>],
     [kind |-> "array", items |-> <<"https://app.example/cb">>]}

ClientIds == {NONE, "claude-desktop", "other-client"} \cup DOMAIN registeredClients
ClientStates == {NONE, "client-state"}
Challenges == {NONE, "challenge-A"}
ChallengeMethods == {NONE, "S256", "plain"}
Verifiers == {NONE, "verifier-A", "verifier-B"}
GrantTypes == {"authorization_code", "refresh_token"}
EdgeErrors == {NONE, "access_denied"}
EdgeOutcomes == {"ok", "not_ok", "throws"}
Emails == {"alice@example.com"}
Handles == {NONE} \cup Issued   \* codes, states, tokens, session ids

\* a client that keeps to the protocol
GoodAuthorize ==
    /\ Cardinality(DOMAIN pendingAuth) < MaxPending
    /\ Authorize("claude-desktop", Loopback1, NONE, "challenge-A", "S256")

\* at most max calls of randomUUID() in a run
UuidBudget(max) == nextUuid' <= max + 1

(* The authorization flow: /authorize by a well-behaved client, then       *)
(* /callback and /token with every input                                   *)
FlowAuthorize == Quiet /\ GoodAuthorize /\ UuidBudget(MaxFlowUuid)

FlowCallbackBegin ==
    /\ Quiet
    /\ \E s \in Handles, e \in EdgeErrors : CallbackBegin("edge-code", s, e)

FlowCallbackExchange ==
    /\ Quiet
    /\ \E f \in inflight, o \in EdgeOutcomes : CallbackExchange(f, o)

FlowCallbackUserInfo ==
    /\ Quiet
    /\ \E f \in inflight, o \in EdgeOutcomes, e \in Emails :
          CallbackUserInfo(f, o, e)
    /\ UuidBudget(MaxFlowUuid)

FlowToken ==
    /\ Quiet
    /\ \E g \in GrantTypes, c \in Handles,
          id \in {"claude-desktop", "other-client"}, v \in Verifiers :
          Token(g, c, id, v)
    /\ UuidBudget(MaxFlowUuid)

FlowTick == Quiet /\ Tick(PENDING_TTL)

Next ==
    \/ ResponseSent
    \/ FlowAuthorize
    \/ FlowCallbackBegin
    \/ FlowCallbackExchange
    \/ FlowCallbackUserInfo
    \/ FlowToken
    \/ FlowTick

Spec == Init /\ [][Next]_vars

----------------------------------------------------------------------------
(* Registration and authorization initiation with every input *)

PendingBudget == Cardinality(DOMAIN pendingAuth') <= MaxAuthzPending

AuthzRegister ==
    /\ Quiet
    /\ \E b \in RegisterBodies : Register(b)
    /\ UuidBudget(MaxAuthzUuid)

AuthzAuthorize ==
    /\ Quiet
    /\ \E c \in ClientIds, r \in RedirectUris \cup {"https://app.example/cb"},
          ch \in Challenges, m \in ChallengeMethods :
          Authorize(c, r, "client-state", ch, m)
    /\ UuidBudget(MaxAuthzUuid)
    /\ PendingBudget

NextAuthorize ==
    \/ ResponseSent
    \/ AuthzRegister
    \/ AuthzAuthorize

SpecAuthorize == Init /\ [][NextAuthorize]_vars

----------------------------------------------------------------------------
(* The protocol endpoint: a well-behaved client obtains tokens, and /mcp   *)
(* is called with every input                                              *)

Methods == {"GET", "POST", "DELETE", "PUT"}
Origins ==
    {NONE, "http://localhost:3000", "https://mcp.example.org",
     "https://dash.cloudflare.com", "https://team.cloudflareaccess.com",
     "https://evilcloudflare.com", "https://attacker.example", "null"}
Accepts == {{}, {"application/json"}, {"text/event-stream"}}
BodyMethods == {"initialize", "tools/call"}

Bearer(t) == [scheme |-> "Bearer", credentials |-> t]
Basic(t) == [scheme |-> "Basic", credentials |-> t]

\* the tokens issued so far, stored or not
TokensIssued == {h.id : h \in {x \in mintLog : x.kind = "token"}}

\* every kind of Authorization header: none, a bearer header with a token
\* that was never issued, with any token issued so far, and another scheme
\* with a stored token
AuthHeaders ==
    {NoAuth, Bearer("bogus")}
    \cup {Bearer(t) : t \in TokensIssued}
    \cup {Basic(t) : t \in DOMAIN accessTokens}

\* the sessions created so far, stored or not
SessionsCreated == {h.id : h \in {x \in mintLog : x.kind = "session"}}

\* session headers: none, unknown, and every session created so far
SessionIds == {NONE, "bogus"} \cup DOMAIN transports \cup SessionsCreated

\* the client runs one authorization flow at a time
FlowIdle == pendingAuth = EmptyMap /\ inflight = {} /\ authCodes = EmptyMap

GoodFlow ==
    \/ FlowIdle /\ GoodAuthorize
    \/ \E s \in DOMAIN pendingAuth : CallbackBegin("edge-code", s, NONE)
    \/ \E f \in inflight : CallbackExchange(f, "ok")
    \/ \E f \in inflight, e \in Emails : CallbackUserInfo(f, "ok", e)
    \/ \E c \in DOMAIN authCodes :
          Token("authorization_code", c, "claude-desktop", "verifier-A")

McpFlow == Quiet /\ GoodFlow /\ UuidBudget(MaxMcpUuid)

\* the gates: every origin with every Authorization header
McpGates ==
    /\ Quiet
    /\ \E m \in {"GET", "POST", "DELETE"}, o \in Origins, a \in AuthHeaders,
          s \in {NONE} \cup DOMAIN transports :
          Mcp(m, o, a, s, {"application/json", "text/event-stream"}, "tools/call")
    /\ UuidBudget(MaxMcpUuid)

\* the handler: every method, session header, Accept and body
McpHandler ==
    /\ Quiet
    /\ \E t \in DOMAIN accessTokens, m \in Methods, s \in SessionIds,
          ac \in Accepts, b \in BodyMethods : Mcp(m, NONE, Bearer(t), s, ac, b)
    /\ UuidBudget(MaxMcpUuid)

McpTransportClose == Quiet /\ \E t \in openTransports : TransportClose(t)

McpTick == Quiet /\ Tick(TOKEN_TTL)

NextMcp ==
    \/ ResponseSent
    \/ McpFlow
    \/ McpGates
    \/ McpHandler
    \/ McpTransportClose
    \/ McpTick

SpecMcp == Init /\ [][NextMcp]_vars

----------------------------------------------------------------------------
(* The round trip through the identity edge, one at a time: a client that  *)
(* supplies a state, an empty state or none, and /callback with every      *)
(* outcome of the edge                                                     *)

CallbackStates == {NONE, "", "client-state"}

CbAuthorize ==
    /\ Quiet
    /\ pendingAuth = EmptyMap
    /\ inflight = {}
    /\ \E st \in CallbackStates :
          Authorize("claude-desktop", Loopback1, st, "challenge-A", "S256")
    /\ UuidBudget(MaxCallbackUuid)

\* the error parameter of a /callback: none, empty, and an error code
CallbackErrors == {NONE, "", "access_denied"}

CbCallbackBegin ==
    /\ Quiet
    /\ \E s \in {"bogus"} \cup DOMAIN pendingAuth, e \in CallbackErrors :
          CallbackBegin("edge-code", s, e)

CbCallbackExchange ==
    /\ Quiet
    /\ \E f \in inflight, o \in EdgeOutcomes : CallbackExchange(f, o)

CbCallbackUserInfo ==
    /\ Quiet
    /\ \E f \in inflight, o \in EdgeOutcomes, e \in Emails :
          CallbackUserInfo(f, o, e)
    /\ UuidBudget(MaxCallbackUuid)

CbTick == Quiet /\ Tick(PENDING_TTL)

NextCallback ==
    \/ ResponseSent
    \/ CbAuthorize
    \/ CbCallbackBegin
    \/ CbCallbackExchange
    \/ CbCallbackUserInfo
    \/ CbTick

SpecCallback == Init /\ [][NextCallback]_vars

----------------------------------------------------------------------------
(* Redemption: well-behaved authorization round trips, and /token called   *)
(* with every code ever issued, every client and every verifier, in any    *)
(* order                                                                   *)

RedeemAuthorize == Quiet /\ GoodAuthorize /\ UuidBudget(MaxRedeemUuid)

RedeemCallback ==
    /\ Quiet
    /\ \/ \E s \in DOMAIN pendingAuth : CallbackBegin("edge-code", s, NONE)
       \/ \E f \in inflight : CallbackExchange(f, "ok")
       \/ \E f \in inflight, e \in Emails : CallbackUserInfo(f, "ok", e)
    /\ UuidBudget(MaxRedeemUuid)

RedeemToken ==
    /\ Quiet
    /\ \E c \in Handles, id \in {"claude-desktop", "other-client"},
          v \in Verifiers : Token("authorization_code", c, id, v)
    /\ UuidBudget(MaxRedeemUuid)

RedeemTick == Quiet /\ Tick(CODE_TTL)

NextRedeem ==
    \/ ResponseSent
    \/ RedeemAuthorize
    \/ RedeemCallback
    \/ RedeemToken
    \/ RedeemTick

SpecRedeem == Init /\ [][NextRedeem]_vars

----------------------------------------------------------------------------
(* The token endpoint called by a client that registered with a secret:    *)
(* one authorization round trip at a time, and /token with every           *)
(* redirect_uri and client_secret                                          *)

AppUri == "https://app.example/cb"

TokRegister ==
    /\ Quiet
    /\ registeredClients = EmptyMap
    /\ Register([kind |-> "array", items |-> <<AppUri>>])
    /\ UuidBudget(MaxTokenUuid)

TokAuthorize ==
    /\ Quiet
    /\ FlowIdle
    /\ \E c \in DOMAIN registeredClients :
          Authorize(c, AppUri, NONE, "challenge-A", "S256")
    /\ UuidBudget(MaxTokenUuid)

TokCallback ==
    /\ Quiet
    /\ \/ \E s \in DOMAIN pendingAuth : CallbackBegin("edge-code", s, NONE)
       \/ \E f \in inflight : CallbackExchange(f, "ok")
       \/ \E f \in inflight, e \in Emails : CallbackUserInfo(f, "ok", e)
    /\ UuidBudget(MaxTokenUuid)

\* the redirect_uri and client_secret a request may send: none, the value
\* on file, and another one
TokenRedirects == {NONE, AppUri, "https://evil.example/cb"}
TokenSecrets ==
    {NONE, "wrong-secret"}
    \cup {registeredClients[c].client_secret : c \in DOMAIN registeredClients}

TokToken ==
    /\ Quiet
    /\ \E c \in {"bogus"} \cup DOMAIN authCodes,
          id \in {"other-client"} \cup DOMAIN registeredClients,
          v \in Verifiers, r \in TokenRedirects, sec \in TokenSecrets :
          TokenPost([grant_type |-> "authorization_code", code |-> c,
                     redirect_uri |-> r, client_id |-> id,
                     client_secret |-> sec, code_verifier |-> v])
    /\ UuidBudget(MaxTokenUuid)

TokTick == Quiet /\ Tick(CODE_TTL)

NextToken ==
    \/ ResponseSent
    \/ TokRegister
    \/ TokAuthorize
    \/ TokCallback
    \/ TokToken
    \/ TokTick

SpecToken == Init /\ [][NextToken]_vars

----------------------------------------------------------------------------
(* Where authorization codes are delivered: a client registered with a    *)
(* redirect URI of its own and clients that never registered ask for      *)
(* codes at loopback and other URIs, one round trip at a time             *)

RdRegister ==
    /\ Quiet
    /\ \A c \in DOMAIN registeredClients :
          registeredClients[c].client_secret = NULL
    /\ Register([kind |-> "array", items |-> <<AppUri>>])
    /\ UuidBudget(MaxRedirectUuid)

RdAuthorize ==
    /\ Quiet
    /\ FlowIdle
    /\ \E c \in {"claude-desktop"} \cup DOMAIN registeredClients,
          r \in {Loopback1, Loopback2, AppUri, "https://evil.example/cb",
                 "http://localhost.evil.example/cb"} :
          Authorize(c, r, NONE, "challenge-A", "S256")
    /\ UuidBudget(MaxRedirectUuid)

RdCallback ==
    /\ Quiet
    /\ \/ \E s \in DOMAIN pendingAuth : CallbackBegin("edge-code", s, NONE)
       \/ \E f \in inflight, o \in EdgeOutcomes : CallbackExchange(f, o)
       \/ \E f \in inflight, o \in EdgeOutcomes, e \in Emails :
             CallbackUserInfo(f, o, e)
    /\ UuidBudget(MaxRedirectUuid)

RdToken ==
    /\ Quiet
    /\ \E c \in DOMAIN authCodes :
          Token("authorization_code", c, authCodes[c].client_id, "verifier-A")
    /\ UuidBudget(MaxRedirectUuid)

NextRedirect ==
    \/ ResponseSent
    \/ RdRegister
    \/ RdAuthorize
    \/ RdCallback
    \/ RdToken

SpecRedirect == Init /\ [][NextRedirect]_vars

----------------------------------------------------------------------------
(* One authorization carried through with the clock read at and just      *)
(* after the instants at which its records expire                         *)

\* every multiple of the lifetime of a code (a token lives six of them),
\* and the millisecond after it
Instants ==
    {k * CODE_TTL + e : k \in 0..MaxExpirySteps, e \in {0, 1}}

\* Date.now() has moved on to t
AdvanceTo(t) ==
    /\ t > now
    /\ now' = t
    /\ UNCHANGED <<oauthEnabled, tables, openTransports, inflight, nextUuid,
                   mintLog, last>>

ExAuthorize == Quiet /\ FlowIdle /\ GoodAuthorize /\ UuidBudget(MaxExpiryUuid)

ExCallback ==
    /\ Quiet
    /\ \/ \E s \in DOMAIN pendingAuth : CallbackBegin("edge-code", s, NONE)
       \/ \E f \in inflight : CallbackExchange(f, "ok")
       \/ \E f \in inflight, e \in Emails : CallbackUserInfo(f, "ok", e)
    /\ UuidBudget(MaxExpiryUuid)

ExToken ==
    /\ Quiet
    /\ \E c \in DOMAIN authCodes :
          Token("authorization_code", c, "claude-desktop", "verifier-A")
    /\ UuidBudget(MaxExpiryUuid)

ExMcp ==
    /\ Quiet
    /\ \E t \in DOMAIN accessTokens :
          Mcp("POST", NONE, Bearer(t), NONE,
              {"application/json", "text/event-stream"}, "tools/call")

ExAdvance == Quiet /\ \E t \in Instants : AdvanceTo(t)

NextExpiry ==
    \/ ResponseSent
    \/ ExAuthorize
    \/ ExCallback
    \/ ExToken
    \/ ExMcp
    \/ ExAdvance

SpecExpiry == Init /\ [][NextExpiry]_vars

----------------------------------------------------------------------------
(* Two users, each with their own client and token, and the sessions they *)
(* create and address on /mcp                                             *)

SessionUsers == {"alice@example.com", "bob@example.com"}

\* client c holds a token
HoldsToken(c) == \E t \in DOMAIN accessTokens : accessTokens[t].client_id = c

\* one authorization round trip at a time, by a client without a token
SsFlow ==
    /\ Quiet
    /\ \/ /\ FlowIdle
          /\ \/ /\ ~HoldsToken("claude-desktop")
                /\ Authorize("claude-desktop", Loopback1, NONE,
                             "challenge-A", "S256")
             \/ /\ ~HoldsToken("cursor")
                /\ Authorize("cursor", Loopback2, NONE, "challenge-A", "S256")
       \/ \E s \in DOMAIN pendingAuth : CallbackBegin("edge-code", s, NONE)
       \/ \E f \in inflight : CallbackExchange(f, "ok")
       \/ \E f \in inflight, e \in SessionUsers : CallbackUserInfo(f, "ok", e)
       \/ \E c \in DOMAIN authCodes :
             Token("authorization_code", c, authCodes[c].client_id, "verifier-A")
    /\ UuidBudget(MaxSessionUuid)

SsMcp ==
    /\ Quiet
    /\ \E t \in DOMAIN accessTokens :
          \/ Mcp("POST", NONE, Bearer(t), NONE,
                 {"application/json", "text/event-stream"}, "initialize")
          \/ \E m \in {"GET", "POST", "DELETE"}, s \in SessionsCreated :
                Mcp(m, NONE, Bearer(t), s,
                    {"application/json", "text/event-stream"}, "tools/call")
    /\ UuidBudget(MaxSessionUuid)

SsTransportClose == Quiet /\ \E t \in openTransports : TransportClose(t)

SsTick == Quiet /\ accessTokens # EmptyMap /\ FlowIdle /\ Tick(TOKEN_TTL)

NextSession ==
    \/ ResponseSent
    \/ SsFlow
    \/ SsMcp
    \/ SsTransportClose
    \/ SsTick

SpecSession == Init /\ [][NextSession]_vars

----------------------------------------------------------------------------
(* /callback under the event loop: a call to the identity edge eventually *)
(* settles (it returns, or fails by error or timeout) and its             *)
(* continuation then runs; meanwhile other requests are served            *)

\* every authorization started can be carried through: one identifier is
\* kept for the code of each pending record and each suspended callback
LiveAuthorize ==
    /\ Quiet
    /\ \E st \in ClientStates :
          Authorize("claude-desktop", Loopback1, st, "challenge-A", "S256")
    /\ Cardinality(DOMAIN pendingAuth') <= MaxPending
    /\ (nextUuid' - 1) + Cardinality(DOMAIN pendingAuth')
          + Cardinality(inflight') <= MaxLiveUuid

LiveCallbackBegin ==
    /\ Quiet
    /\ \E s \in {"bogus"} \cup DOMAIN pendingAuth :
          CallbackBegin("edge-code", s, NONE)

LiveCallbackExchange ==
    /\ Quiet
    /\ \E f \in inflight, o \in EdgeOutcomes : CallbackExchange(f, o)

LiveCallbackUserInfo ==
    /\ Quiet
    /\ \E f \in inflight, o \in EdgeOutcomes, e \in Emails :
          CallbackUserInfo(f, o, e)

LiveTick == Quiet /\ Tick(PENDING_TTL)

NextLive ==
    \/ ResponseSent
    \/ LiveAuthorize
    \/ LiveCallbackBegin
    \/ LiveCallbackExchange
    \/ LiveCallbackUserInfo
    \/ LiveTick

\* a response, once produced, is written out; each await on the identity
\* edge settles and the event loop runs its continuation, however many
\* other requests arrive in between
SpecLive ==
    /\ Init /\ [][NextLive]_vars
    /\ WF_vars(ResponseSent)
    /\ SF_vars(LiveCallbackExchange)
    /\ SF_vars(LiveCallbackUserInfo)

----------------------------------------------------------------------------
(* Every handler with several entries in every table: two clients with    *)
(* their own authorizations, codes and tokens side by side, a registered  *)
(* client, sessions, and the clock                                        *)

FrameClients == {"claude-desktop", "cursor"}

\* client c has an authorization under way: a pending record, a callback
\* suspended on the identity edge, or a code not yet redeemed
FrameBusy(c) ==
    \/ \E k \in DOMAIN pendingAuth : pendingAuth[k].client_id = c
    \/ \E f \in inflight : f.pending.client_id = c
    \/ \E k \in DOMAIN authCodes : authCodes[k].client_id = c

\* a client registers once sessions exist
FrRegister ==
    /\ Quiet
    /\ transports # EmptyMap
    /\ DOMAIN registeredClients \subseteq FrameClients
    /\ Register([kind |-> "array", items |-> <<AppUri>>])
    /\ UuidBudget(MaxFrameUuid)

FrAuthorize ==
    /\ Quiet
    /\ \/ ~FrameBusy("claude-desktop")
          /\ Authorize("claude-desktop", Loopback1, NONE, "challenge-A", "S256")
       \/ ~FrameBusy("cursor")
          /\ Authorize("cursor", Loopback2, NONE, "challenge-A", "S256")
    /\ Cardinality(DOMAIN pendingAuth') <= MaxPending
    /\ UuidBudget(MaxFrameUuid)

FrCallback ==
    /\ Quiet
    /\ \/ \E s \in DOMAIN pendingAuth : CallbackBegin("edge-code", s, NONE)
       \/ \E f \in inflight, o \in EdgeOutcomes : CallbackExchange(f, o)
       \/ \E f \in inflight, e \in Emails : CallbackUserInfo(f, "ok", e)
    /\ Cardinality(inflight') <= MaxInflight
    /\ UuidBudget(MaxFrameUuid)

FrToken ==
    /\ Quiet
    /\ \E c \in DOMAIN authCodes, id \in FrameClients :
          Token("authorization_code", c, id, "verifier-A")
    /\ UuidBudget(MaxFrameUuid)

FrMcp ==
    /\ Quiet
    /\ \E t \in {"bogus"} \cup DOMAIN accessTokens :
          \/ Mcp("POST", NONE, Bearer(t), NONE,
                 {"application/json", "text/event-stream"}, "initialize")
          \/ \E s \in DOMAIN transports :
                Mcp("DELETE", NONE, Bearer(t), s,
                    {"application/json", "text/event-stream"}, "tools/call")
    /\ UuidBudget(MaxFrameUuid)

\* the clock advances by the lifetime of a token once tokens exist and no
\* authorization is under way
FrTick == Quiet /\ accessTokens # EmptyMap /\ FlowIdle /\ Tick(TOKEN_TTL)

NextFrame ==
    \/ ResponseSent
    \/ FrRegister
    \/ FrAuthorize
    \/ FrCallback
    \/ FrToken
    \/ FrMcp
    \/ FrTick

SpecFrame == Init /\ [][NextFrame]_vars

----------------------------------------------------------------------------
(* Every route under either configuration: the identity edge configured   *)
(* or not                                                                  *)

ConfigAuthorize ==
    /\ Quiet
    /\ \E c \in {NONE, "claude-desktop"},
          r \in {NONE, Loopback1, "https://evil.example/cb"},
          ch \in Challenges, m \in {"S256", "plain"} :
          Authorize(c, r, NONE, ch, m)
    /\ UuidBudget(MaxConfigUuid)
    /\ PendingBudget

ConfigCallbackBegin ==
    /\ Quiet
    /\ \E s \in {NONE, "bogus"} \cup DOMAIN pendingAuth, e \in EdgeErrors :
          CallbackBegin("edge-code", s, e)

ConfigCallbackExchange ==
    /\ Quiet
    /\ \E f \in inflight, o \in EdgeOutcomes : CallbackExchange(f, o)

\* the deployment's allow-list of identities (ALLOWED_EMAILS of the set-up
\* guide); no statement of the server reads it
ALLOWED_EMAILS == {"alice@example.com"}

\* the identities the edge authenticates
EdgeEmails == {"alice@example.com", "mallory@example.com"}

ConfigCallbackUserInfo ==
    /\ Quiet
    /\ \E f \in inflight, e \in EdgeEmails : CallbackUserInfo(f, "ok", e)
    /\ UuidBudget(MaxConfigUuid)

ConfigToken ==
    /\ Quiet
    /\ \E c \in {NONE, "bogus"} \cup DOMAIN authCodes, v \in Verifiers :
          Token("authorization_code", c, "claude-desktop", v)
    /\ UuidBudget(MaxConfigUuid)

\* /mcp with no Authorization header, a made-up token, and every identifier
\* the server has handed out presented as a bearer token
ConfigMcp ==
    /\ Quiet
    /\ \E m \in {"GET", "POST", "DELETE"}, o \in {NONE, "https://attacker.example"},
          a \in {NoAuth, Bearer("bogus")} \cup {Bearer(t) : t \in Issued},
          b \in BodyMethods :
          Mcp(m, o, a, NONE, {"application/json", "text/event-stream"}, b)
    /\ UuidBudget(MaxConfigUuid)

\* the health probe, without and with an injected string-typed field
HealthFaults == {NONE, "unifiApiKey"}

ConfigHealth == Quiet /\ \E fault \in HealthFaults : Health(fault)

ConfigTick == Quiet /\ Tick(TOKEN_TTL)

NextConfig ==
    \/ ResponseSent
    \/ ConfigAuthorize
    \/ ConfigCallbackBegin
    \/ ConfigCallbackExchange
    \/ ConfigCallbackUserInfo
    \/ ConfigToken
    \/ ConfigMcp
    \/ ConfigHealth
    \/ ConfigTick

SpecConfig == Init /\ [][NextConfig]_vars

----------------------------------------------------------------------------
(* The codes or tokens minted so far, and which step of /callback `l`      *)
(* records                                                                 *)

Minted(kind) == {h \in mintLog : h.kind = kind}


CallbackBegun(l) ==
    l.op = "callback" /\ l.req.exchange = NONE /\ l.req.userinfo = NONE
CallbackExchanged(l) ==
    l.op = "callback" /\ l.req.exchange # NONE /\ l.req.userinfo = NONE
CallbackFinished(l) ==
    l.op = "callback" /\ l.req.userinfo # NONE

----------------------------------------------------------------------------
(* C2: after any /token request with grant_type authorization_code that    *)
(* names a stored, unexpired code, that code is no longer stored, whether  *)
(* the request succeeded, failed the PKCE check or failed the client_id    *)
(* check (the request carries a code_verifier).  The handler returns at    *)
(* the failed client_id and PKCE checks without deleting the code, so this *)
(* is violated.                                                            *)
C2_CodeDeletedByAnyRedemption ==
    [][ ( /\ last'.op = "token"
          /\ last'.req.grant_type = "authorization_code"
          /\ last'.req.code_verifier # NONE
          /\ Has(authCodes, last'.req.code)
          /\ authCodes[last'.req.code].expires >= now )
        => last'.req.code \notin DOMAIN authCodes' ]_vars

(* C9: a /callback without error parameter whose state names no stored     *)
(* record, or an expired one, is answered invalid_state and mints no code; *)
(* a /callback that finds a live record has removed it when it suspends;   *)
(* and over the whole run no two codes are minted from the same record.    *)
C9_PendingConsumedAtMostOnce ==
    /\ [][ ( CallbackBegun(last') /\ last'.req.error = NONE )
           => IF ~Has(pendingAuth, last'.req.state)
                 \/ pendingAuth[last'.req.state].expires < now
              THEN /\ last'.resp.status = 400
                   /\ last'.resp.error = "invalid_state"
                   /\ authCodes' = authCodes
                   /\ mintLog' = mintLog
                   /\ inflight' = inflight
              ELSE /\ last'.resp.status = SUSPENDED
                   /\ last'.req.state \notin DOMAIN pendingAuth'
                   /\ \E f \in inflight' \ inflight :
                         f.req.state = last'.req.state ]_vars
    /\ [](\A a, b \in Minted("code") : a.from = b.from => a.id = b.id)

\* a second /callback with the state of a request that is still suspended
\* on the identity edge has been refused
C9_Witness ==
    /\ CallbackBegun(last)
    /\ last.req.error = NONE
    /\ last.resp.error = "invalid_state"
    /\ \E f \in inflight : f.req.state = last.req.state

(* C10: if either call to the identity edge fails (the code exchange or    *)
(* the user-info fetch), the /callback ends with a failure response and    *)
(* mints no code.  A user-info response that is not ok is replaced by the  *)
(* placeholder { email: 'unknown' } and the code is minted, so this is     *)
(* violated.                                                               *)
C10_EdgeFailureMintsNothing ==
    [][ ( /\ last'.op = "callback"
          /\ \/ last'.req.exchange \in {"not_ok", "throws"}
             \/ last'.req.userinfo \in {"not_ok", "throws"} )
        => /\ last'.resp.status \in {400, 500}
           /\ authCodes' = authCodes
           /\ mintLog' = mintLog ]_vars

----------------------------------------------------------------------------
(* C1: every /authorize request whose code_challenge is missing or whose   *)
(* code_challenge_method is not exactly S256 is answered 400               *)
(* invalid_request, redirects nowhere and creates no pending               *)
(* authorization.                                                          *)
C1_PkceRequired ==
    [][ ( /\ last'.op = "authorize"
          /\ \/ last'.req.code_challenge = NONE
             \/ last'.req.code_challenge_method # "S256" )
        => /\ last'.resp.status = 400
           /\ last'.resp.error = "invalid_request"
           /\ last'.resp.location = NONE
           /\ pendingAuth' = pendingAuth ]_vars

\* a request of a registered client with a redirect URI on file, the edge
\* configured, a challenge and the method "plain" has been refused
C1_Witness ==
    /\ last.op = "authorize"
    /\ oauthEnabled
    /\ Has(registeredClients, last.req.client_id)
    /\ Includes(registeredClients[last.req.client_id].redirect_uris,
                last.req.redirect_uri)
    /\ last.req.code_challenge # NONE
    /\ last.req.code_challenge_method = "plain"
    /\ last.resp.status = 400

(* C4: for an /authorize request that names a client_id not in the         *)
(* registry: if the host of redirect_uri is localhost or 127.0.0.1 the     *)
(* client is registered as a public client (client_secret null,            *)
(* redirect_uris = [redirect_uri]) and the request goes on to the PKCE and *)
(* configuration checks (it is redirected when both pass); if the host is  *)
(* anything else, or redirect_uri is missing or does not parse, the        *)
(* request is answered 400 and no client is registered.                    *)
C4_LoopbackOnlyAutoRegistration ==
    [][ ( /\ last'.op = "authorize"
          /\ last'.req.client_id # NONE
          /\ ~Has(registeredClients, last'.req.client_id) )
        => LET r == last'.req IN
           IF URLHostname(r.redirect_uri) \in
                 {<<"localhost">>, <<"127", "0", "0", "1">>}
           THEN /\ registeredClients' =
                      Put(registeredClients, r.client_id,
                          [client_secret |-> NULL,
                           redirect_uris |-> <<r.redirect_uri>>])
                /\ ( /\ r.code_challenge # NONE
                     /\ r.code_challenge_method = "S256"
                     /\ oauthEnabled )
                   => /\ last'.resp.status = 302
                      /\ \E st \in DOMAIN pendingAuth' \ DOMAIN pendingAuth :
                            /\ pendingAuth'[st].client_id = r.client_id
                            /\ pendingAuth'[st].redirect_uri = r.redirect_uri
           ELSE /\ last'.resp.status = 400
                /\ registeredClients' = registeredClients
                /\ pendingAuth' = pendingAuth ]_vars

\* an unknown client with a redirect URI on a host that merely starts with
\* "localhost" has been refused, while another client was auto-registered
C4_Witness ==
    /\ last.op = "authorize"
    /\ last.req.client_id # NONE
    /\ ~Has(registeredClients, last.req.client_id)
    /\ last.req.redirect_uri = "http://localhost.evil.example/cb"
    /\ last.resp.status = 400
    /\ \E c \in DOMAIN registeredClients :
          registeredClients[c].client_secret = NULL

----------------------------------------------------------------------------
(* The /mcp request `l` seen from the state it arrived in *)

\* its Origin header is absent, or names a loopback host, the server's own
\* host or a host under an identity-edge domain
OriginPasses(l) ==
    \/ l.req.origin = NONE
    \/ LET h == URLHostname(l.req.origin) IN
         \/ h \in {<<"localhost">>, <<"127", "0", "0", "1">>,
                   <<"mcp", "example", "org">>}
         \/ /\ Len(h) >= 3
            /\ SubSeq(h, Len(h) - 1, Len(h)) \in
                  {<<"cloudflare", "com">>, <<"cloudflareaccess", "com">>}

\* its Authorization header is 'Bearer <t>' with t stored and not expired
PresentsLiveToken(l) ==
    /\ l.req.authorization.scheme = "Bearer"
    /\ l.req.authorization.credentials \in DOMAIN accessTokens
    /\ accessTokens[l.req.authorization.credentials].expires >= now

\* it passes content negotiation
Negotiates(l) ==
    CASE l.req.method = "GET" -> "text/event-stream" \in l.req.accept
      [] l.req.method = "POST" ->
            l.req.accept \cap {"application/json", "text/event-stream"} # {}
      [] OTHER -> TRUE

(* C3: an access token presented to the bearer gate of /mcp later than 1   *)
(* hour after its issuance is rejected with 401 and is not stored          *)
(* afterwards (so every later presentation is rejected as well); the       *)
(* expiry of a stored token never changes and a token that has been        *)
(* removed is never stored again.                                          *)
C3_ExpiredTokenRejectedAndPurged ==
    [][ /\ \A h \in Minted("token") :
              ( /\ last'.op = "mcp"
                /\ OriginPasses(last')
                /\ last'.req.authorization = Bearer(h.id)
                /\ now > h.at + 3600000 )
              => /\ last'.resp.status = 401
                 /\ h.id \notin DOMAIN accessTokens'
        /\ \A t \in DOMAIN accessTokens :
              t \in DOMAIN accessTokens'
              => accessTokens'[t].expires = accessTokens[t].expires
        /\ \A h \in Minted("token") :
              h.id \notin DOMAIN accessTokens => h.id \notin DOMAIN accessTokens'
      ]_vars

\* a token issued more than an hour ago has been presented, refused and is
\* gone
C3_Witness ==
    /\ last.op = "mcp"
    /\ last.resp.status = 401
    /\ \E h \in Minted("token") :
          /\ last.req.authorization = Bearer(h.id)
          /\ now > h.at + 3600000
          /\ h.id \notin DOMAIN accessTokens

(* C5: a GET, POST or DELETE on /mcp that passed the origin filter and     *)
(* whose Authorization header is not 'Bearer <t>' with t stored and not    *)
(* expired at that moment is answered 401 with the WWW-Authenticate        *)
(* challenge (resource-metadata URL, scope mcp:tools), is routed to no     *)
(* session and leaves the session table unchanged.                         *)
C5_BearerGate ==
    [][ ( /\ last'.op = "mcp"
          /\ last'.req.method \in {"GET", "POST", "DELETE"}
          /\ OriginPasses(last')
          /\ ~PresentsLiveToken(last') )
        => /\ last'.resp.status = 401
           /\ last'.resp.wwwAuth =
                 [resource_metadata |->
                     "https://mcp.example.org/.well-known/oauth-protected-resource/mcp",
                  scope |-> "mcp:tools"]
           /\ last'.resp.routed = NONE
           /\ transports' = transports
           /\ openTransports' = openTransports ]_vars

\* a stored, unexpired token presented under another scheme has been refused
C5_Witness ==
    /\ last.op = "mcp"
    /\ last.req.authorization.scheme = "Basic"
    /\ last.req.authorization.credentials \in DOMAIN accessTokens
    /\ accessTokens[last.req.authorization.credentials].expires >= now
    /\ last.resp.status = 401

(* C6: on /mcp the origin filter comes before the bearer gate: a request   *)
(* whose Origin header is present and is neither loopback, nor the         *)
(* server's own host, nor an identity-edge domain, nor parseable is        *)
(* answered 403 whatever its Authorization header, and the token table is  *)
(* not touched; a request without Origin header is never answered 403.     *)
C6_OriginBeforeBearer ==
    [][ last'.op = "mcp"
        => IF OriginPasses(last')
           THEN last'.req.origin = NONE => last'.resp.status # 403
           ELSE /\ last'.resp.status = 403
                /\ last'.resp.wwwAuth = NONE
                /\ accessTokens' = accessTokens
                /\ transports' = transports ]_vars

\* a request from a foreign origin carrying a stored, unexpired token has
\* been answered 403
C6_Witness ==
    /\ last.op = "mcp"
    /\ last.req.origin = "https://attacker.example"
    /\ last.req.authorization.scheme = "Bearer"
    /\ last.req.authorization.credentials \in DOMAIN accessTokens
    /\ accessTokens[last.req.authorization.credentials].expires >= now
    /\ last.resp.status = 403

(* C7: session lifecycle.  An authenticated initialize POST without a     *)
(* session header adds exactly one session, under an identifier never      *)
(* issued before, and returns it; an authenticated POST that is not an     *)
(* initialize and carries the identifier of a stored session is handed to  *)
(* that session's transport; a DELETE carrying the identifier of a stored  *)
(* session removes exactly that session and is answered 200; a DELETE      *)
(* carrying an identifier that is not stored (an immediately repeated      *)
(* DELETE) is answered 404 and changes nothing.                            *)
C7_SessionLifecycle ==
    [][ ( /\ last'.op = "mcp"
          /\ OriginPasses(last')
          /\ PresentsLiveToken(last')
          /\ Negotiates(last') )
        => LET r == last'.req
               sid == r.mcpSessionId
           IN
           /\ ( r.method = "POST" /\ r.bodyMethod = "initialize" /\ sid = NONE )
              => \E new \in DOMAIN transports' :
                    /\ new \notin Issued
                    /\ new \notin DOMAIN transports
                    /\ DOMAIN transports' = DOMAIN transports \cup {new}
                    /\ \A o \in DOMAIN transports : transports'[o] = transports[o]
                    /\ last'.resp.carries = new
           /\ ( r.method = "POST" /\ r.bodyMethod # "initialize"
                /\ sid \in DOMAIN transports )
              => /\ last'.resp.routed = sid
                 /\ transports' = transports
           /\ ( r.method = "DELETE" /\ sid \in DOMAIN transports )
              => /\ last'.resp.status = 200
                 /\ DOMAIN transports' = DOMAIN transports \ {sid}
                 /\ \A o \in DOMAIN transports' : transports'[o] = transports[o]
           /\ ( r.method = "DELETE" /\ sid # NONE /\ sid \notin DOMAIN transports )
              => /\ last'.resp.status = 404
                 /\ transports' = transports
                 /\ openTransports' = openTransports
                 /\ accessTokens' = accessTokens ]_vars

\* a DELETE has been repeated for a session that an earlier DELETE removed
\* (its transport was created and has not reported closure) and got 404,
\* while another session is still stored
C7_Witness ==
    /\ last.op = "mcp"
    /\ last.req.method = "DELETE"
    /\ last.resp.status = 404
    /\ last.req.mcpSessionId \in openTransports
    /\ last.req.mcpSessionId \notin DOMAIN transports

(* C8: for every authenticated GET, non-initialize POST and DELETE on /mcp *)
(* that passes content negotiation, a request without session identifier   *)
(* header is answered 400 and a request whose session identifier is not in *)
(* the session table is answered 404.  The GET branch answers 400 to an    *)
(* unknown session as well, so this is violated.                           *)
C8_MissingSession400UnknownSession404 ==
    [][ ( /\ last'.op = "mcp"
          /\ OriginPasses(last')
          /\ PresentsLiveToken(last')
          /\ Negotiates(last')
          /\ \/ last'.req.method \in {"GET", "DELETE"}
             \/ last'.req.method = "POST" /\ last'.req.bodyMethod # "initialize" )
        => /\ last'.req.mcpSessionId = NONE => last'.resp.status = 400
           /\ ( /\ last'.req.mcpSessionId # NONE
                /\ last'.req.mcpSessionId \notin DOMAIN transports )
              => last'.resp.status = 404 ]_vars

----------------------------------------------------------------------------
(* C11: a /token request with grant_type authorization_code, a stored and  *)
(* unexpired code, the code's client_id and a code_verifier whose S256     *)
(* digest is the code's code_challenge removes the code and adds exactly   *)
(* one access token, under an identifier never issued before, whose user   *)
(* and client_id are the code's and whose expiry is the time of issuance   *)
(* plus one hour; the response is 200 with that token, token_type Bearer   *)
(* and expires_in 3600.                                                    *)
C11_RedemptionMintsOneToken ==
    [][ ( /\ last'.op = "token"
          /\ last'.req.grant_type = "authorization_code"
          /\ Has(authCodes, last'.req.code)
          /\ authCodes[last'.req.code].expires >= now
          /\ authCodes[last'.req.code].client_id = last'.req.client_id
          /\ S256(last'.req.code_verifier) =
                authCodes[last'.req.code].code_challenge )
        => LET c == authCodes[last'.req.code] IN
           /\ last'.req.code \notin DOMAIN authCodes'
           /\ \E t \in DOMAIN accessTokens' :
                 /\ t \notin Issued
                 /\ DOMAIN accessTokens' = DOMAIN accessTokens \cup {t}
                 /\ \A o \in DOMAIN accessTokens :
                       accessTokens'[o] = accessTokens[o]
                 /\ accessTokens'[t] =
                       [client_id |-> c.client_id, user |-> c.user,
                        expires |-> now + 3600000]
                 /\ last'.resp.status = 200
                 /\ last'.resp.body =
                       [access_token |-> t, token_type |-> "Bearer",
                        expires_in |-> 3600] ]_vars

\* a code has been redeemed after time has passed since the server started:
\* the token it yielded is stored and the code is gone
C11_Witness ==
    /\ last.op = "token"
    /\ last.resp.status = 200
    /\ now > 0
    /\ last.resp.carries \in DOMAIN accessTokens
    /\ accessTokens[last.resp.carries].expires = now + 3600000
    /\ last.req.code \notin DOMAIN authCodes

(* C12: when the identity edge is not configured, every /authorize request *)
(* is refused, with 503 server_error or with the 400 of an earlier check,  *)
(* and redirects nowhere; the pending-authorization, authorization-code    *)
(* and access-token tables are empty in every reachable state; and every   *)
(* /mcp request is stopped at the origin filter or the bearer gate (403 or *)
(* 401) and reaches no session.                                            *)
C12_FailClosedWithoutEdge ==
    ~oauthEnabled
    => /\ pendingAuth = EmptyMap
       /\ authCodes = EmptyMap
       /\ accessTokens = EmptyMap
       /\ inflight = {}
       /\ last.op = "authorize"
          => /\ \/ last.resp.status = 400
                \/ last.resp.status = 503 /\ last.resp.error = "server_error"
             /\ last.resp.location = NONE
             /\ ( /\ last.req.client_id # NONE
                  /\ URLHostname(last.req.redirect_uri) = <<"localhost">>
                  /\ last.req.code_challenge # NONE
                  /\ last.req.code_challenge_method = "S256" )
                => last.resp.status = 503
       /\ last.op = "mcp"
          => /\ last.resp.status \in {401, 403}
             /\ last.resp.routed = NONE
             /\ transports = EmptyMap

\* without the edge configured, a client whose /authorize request passed
\* every check (it has been auto-registered) has been refused on /mcp
C12_Witness ==
    /\ ~oauthEnabled
    /\ "claude-desktop" \in DOMAIN registeredClients
    /\ last.op = "mcp"
    /\ last.req.origin = NONE
    /\ last.req.authorization.scheme = "Bearer"
    /\ last.resp.status = 401

(* C13: POST /register with redirect_uris missing, not a list or empty is  *)
(* answered 400 invalid_request and stores no client; otherwise it is      *)
(* answered 201, stores exactly one new client, under a client_id that was *)
(* not in the registry, with a non-null client_secret and the supplied     *)
(* redirect_uris, and returns that client_id, client_secret and            *)
(* redirect_uris.                                                          *)
C13_RegisterValidatesAndStores ==
    [][ last'.op = "register"
        => LET uris == last'.req.redirect_uris IN
           IF uris.kind # "array" \/ uris.items = <<>>
           THEN /\ last'.resp.status = 400
                /\ last'.resp.error = "invalid_request"
                /\ registeredClients' = registeredClients
           ELSE /\ last'.resp.status = 201
                /\ \E new \in DOMAIN registeredClients' :
                      /\ new \notin DOMAIN registeredClients
                      /\ DOMAIN registeredClients' =
                            DOMAIN registeredClients \cup {new}
                      /\ \A o \in DOMAIN registeredClients :
                            registeredClients'[o] = registeredClients[o]
                      /\ registeredClients'[new].client_secret # NULL
                      /\ registeredClients'[new].client_secret # new
                      /\ registeredClients'[new].redirect_uris = uris.items
                      /\ last'.resp.body =
                            [client_id |-> new,
                             client_secret |->
                                 registeredClients'[new].client_secret,
                             redirect_uris |-> uris.items] ]_vars

\* a client has been registered explicitly while an auto-registered client
\* was already in the registry
C13_Witness ==
    /\ last.op = "register"
    /\ last.resp.status = 201
    /\ last.resp.carries \in DOMAIN registeredClients
    /\ \E c \in DOMAIN registeredClients :
          c # last.resp.carries /\ registeredClients[c].client_secret = NULL

(* C14: GET /health is guarded by a runtime assertion: if the payload has  *)
(* a string-typed field other than status and timestamp, the request is    *)
(* answered 500 and the field is not emitted; otherwise the response       *)
(* carries only the status, the timestamp and boolean fields.  The handler *)
(* has no such assertion and sends whatever the payload holds with 200, so *)
(* this is violated.                                                       *)
C14_HealthLeakGuard ==
    [][ last'.op = "health"
        => LET payload == last'.req.payload
               leaks == {f \in DOMAIN payload \ {"status", "timestamp"} :
                           payload[f].type = "string"}
           IN IF leaks # {}
              THEN /\ last'.resp.status = 500
                   /\ last'.resp.body = NONE
              ELSE /\ last'.resp.status = 200
                   /\ \A f \in DOMAIN last'.resp.body \ {"status", "timestamp"} :
                         last'.resp.body[f].type = "boolean" ]_vars

(* C15: with a non-empty allow-list of identities configured, a /callback  *)
(* for an identity the edge authenticated and that is not on the list is   *)
(* answered 403 and mints no code, and no code or token is ever minted for *)
(* such an identity.  No statement of the server reads the allow-list, so  *)
(* this is violated.                                                       *)
C15_AllowListEnforced ==
    /\ [][ ( /\ CallbackFinished(last')
             /\ ALLOWED_EMAILS # {}
             /\ last'.req.userinfo = "ok"
             /\ last'.req.email \notin ALLOWED_EMAILS )
           => /\ last'.resp.status = 403
              /\ authCodes' = authCodes
              /\ mintLog' = mintLog ]_vars
    /\ [](ALLOWED_EMAILS # {}
          => \A h \in mintLog : h.user \in ALLOWED_EMAILS \cup {"unknown"})

(* C16: every /token request that omits code, client_id or code_verifier   *)
(* is answered 400 with an OAuth error code and never 500, also when it    *)
(* names a stored, unexpired code with the code's client_id and omits only *)
(* code_verifier.  Hashing the absent code_verifier throws and the error   *)
(* handler answers 500, so this is violated.                               *)
C16_MissingParameterIs400 ==
    [][ ( /\ last'.op = "token"
          /\ \/ last'.req.code = NONE
             \/ last'.req.client_id = NONE
             \/ last'.req.code_verifier = NONE )
        => /\ last'.resp.status = 400
           /\ last'.resp.error \in
                 {"invalid_request", "invalid_grant", "invalid_client",
                  "unsupported_grant_type"} ]_vars

(* C17: /token applies its checks in a fixed order and mints no token on   *)
(* a failure: a grant_type other than authorization_code gives             *)
(* unsupported_grant_type; otherwise a code that is not stored or is past  *)
(* its expiry gives invalid_grant, and the code is not stored afterwards;  *)
(* otherwise a client_id that is not the code's gives invalid_client;      *)
(* otherwise a code_verifier whose S256 digest is not the stored           *)
(* code_challenge gives invalid_grant.  A request that fails several       *)
(* checks gets the error of the first.  No response other than 200 comes   *)
(* with a new token.                                                       *)
C17_TokenChecksInOrder ==
    [][ last'.op = "token"
        => LET r == last'.req
               refused(e) == /\ last'.resp.status = 400
                             /\ last'.resp.error = e
                             /\ accessTokens' = accessTokens
                             /\ mintLog' = mintLog
           IN
           /\ IF r.grant_type # "authorization_code"
              THEN refused("unsupported_grant_type") /\ authCodes' = authCodes
              ELSE IF r.code \notin DOMAIN authCodes
                      \/ authCodes[r.code].expires < now
              THEN /\ refused("invalid_grant")
                   /\ r.code \notin DOMAIN authCodes'
              ELSE IF authCodes[r.code].client_id # r.client_id
              THEN refused("invalid_client")
              ELSE IF r.code_verifier # NONE
                      /\ S256(r.code_verifier) # authCodes[r.code].code_challenge
              THEN refused("invalid_grant")
              ELSE TRUE
           /\ last'.resp.status # 200
              => accessTokens' = accessTokens /\ mintLog' = mintLog ]_vars

\* a request naming a stored, unexpired code with another client's
\* client_id and a wrong code_verifier has been answered invalid_client
C17_Witness ==
    /\ last.op = "token"
    /\ last.resp.error = "invalid_client"
    /\ last.req.code \in DOMAIN authCodes
    /\ authCodes[last.req.code].expires >= now
    /\ authCodes[last.req.code].client_id # last.req.client_id
    /\ last.req.code_verifier = "verifier-B"
    /\ authCodes[last.req.code].code_challenge = "challenge-A"

(* C18: whatever the order of the /token requests (each runs to            *)
(* completion), no authorization code yields more than one access token    *)
(* over the whole run, and a request naming a code that has yielded a      *)
(* token is answered invalid_grant.                                        *)
C18_CodeYieldsAtMostOneToken ==
    /\ [](\A a, b \in Minted("token") : a.from = b.from => a.id = b.id)
    /\ [][ ( /\ last'.op = "token"
             /\ last'.req.grant_type = "authorization_code"
             /\ \E h \in Minted("token") : h.from = last'.req.code )
           => /\ last'.resp.status = 400
              /\ last'.resp.error = "invalid_grant"
              /\ accessTokens' = accessTokens ]_vars

\* the code of a token that is stored has been presented again, with the
\* right client_id and code_verifier, and refused, while the client has
\* begun a second authorization
C18_Witness ==
    /\ last.op = "token"
    /\ last.resp.error = "invalid_grant"
    /\ last.req.client_id = "claude-desktop"
    /\ last.req.code_verifier = "verifier-A"
    /\ \E h \in Minted("token") :
          h.from = last.req.code /\ h.id \in DOMAIN accessTokens
    /\ pendingAuth # EmptyMap

(* C19: a /callback that ends in a redirect has minted exactly one         *)
(* authorization code, whose client_id, redirect_uri and code_challenge    *)
(* are those of the pending authorization it consumed (the ones /authorize *)
(* stored under the state the request came with) and whose expiry is 10    *)
(* minutes after the minting; the redirect goes to the pending record's    *)
(* redirect_uri and carries that code; it carries a state parameter only   *)
(* if the client supplied one at /authorize, and then the client's own     *)
(* value, never the internal state token.                                  *)
C19_CallbackMintsBoundCode ==
    /\ [][ ( last'.op = "authorize" /\ last'.resp.status = 302 )
           => /\ last'.resp.state \in DOMAIN pendingAuth' \ DOMAIN pendingAuth
              /\ LET p == pendingAuth'[last'.resp.state] IN
                   /\ p.client_id = last'.req.client_id
                   /\ p.redirect_uri = last'.req.redirect_uri
                   /\ p.code_challenge = last'.req.code_challenge
                   /\ p.original_state = last'.req.state ]_vars
    /\ [][ ( CallbackBegun(last') /\ last'.resp.status = SUSPENDED )
           => \E f \in inflight' \ inflight :
                 /\ f.req.state = last'.req.state
                 /\ f.pending = pendingAuth[last'.req.state] ]_vars
    /\ [][ ( CallbackExchanged(last') /\ last'.resp.status = SUSPENDED )
           => \E f \in inflight \ inflight', g \in inflight' \ inflight :
                 /\ g.req.state = f.req.state
                 /\ g.pending = f.pending ]_vars
    /\ [][ ( CallbackFinished(last') /\ last'.resp.status = 302 )
           => \E f \in inflight \ inflight', c \in DOMAIN authCodes' :
                 /\ f.req.state = last'.req.state
                 /\ c \notin Issued
                 /\ DOMAIN authCodes' = DOMAIN authCodes \cup {c}
                 /\ \A o \in DOMAIN authCodes : authCodes'[o] = authCodes[o]
                 /\ authCodes'[c].client_id = f.pending.client_id
                 /\ authCodes'[c].redirect_uri = f.pending.redirect_uri
                 /\ authCodes'[c].code_challenge = f.pending.code_challenge
                 /\ authCodes'[c].expires = now + 600000
                 /\ last'.resp.location = f.pending.redirect_uri
                 /\ last'.resp.carries = c
                 /\ last'.resp.state \in {NONE, f.pending.original_state}
                 /\ f.pending.original_state = NONE => last'.resp.state = NONE
                 /\ last'.resp.state # last'.req.state ]_vars

\* after time has passed, a /callback has redirected to a client that
\* supplied a state, carrying a stored code and the client's state
C19_Witness ==
    /\ CallbackFinished(last)
    /\ last.resp.status = 302
    /\ now > 0
    /\ last.resp.state = "client-state"
    /\ last.resp.carries \in DOMAIN authCodes
    /\ authCodes[last.resp.carries].expires = now + 600000

(* C20: every redirect URI of a registered client was supplied at the      *)
(* client's explicit registration or has the host localhost or 127.0.0.1   *)
(* (no step adds any other URI); an /authorize request of a known client   *)
(* with a redirect_uri that is not on file appends it, after the ones on   *)
(* file, if its host is loopback, and otherwise is answered 400 and leaves *)
(* the registry unchanged.                                                 *)
C20_RedirectUrisGrowLoopbackOnly ==
    /\ [][ \A c \in DOMAIN registeredClients' :
             \A i \in 1..Len(registeredClients'[c].redirect_uris) :
                LET uri == registeredClients'[c].redirect_uris[i] IN
                \/ /\ c \in DOMAIN registeredClients
                   /\ \E j \in 1..Len(registeredClients[c].redirect_uris) :
                         registeredClients[c].redirect_uris[j] = uri
                \/ /\ last'.op = "register"
                   /\ c \notin DOMAIN registeredClients
                   /\ \E j \in 1..Len(last'.req.redirect_uris.items) :
                         last'.req.redirect_uris.items[j] = uri
                \/ URLHostname(uri) \in
                      {<<"localhost">>, <<"127", "0", "0", "1">>} ]_vars
    /\ [][ ( /\ last'.op = "authorize"
             /\ last'.req.redirect_uri # NONE
             /\ last'.req.client_id \in DOMAIN registeredClients
             /\ \A j \in 1..Len(registeredClients[last'.req.client_id].redirect_uris) :
                   registeredClients[last'.req.client_id].redirect_uris[j]
                      # last'.req.redirect_uri )
           => LET c == last'.req.client_id
                  uri == last'.req.redirect_uri
              IN IF URLHostname(uri) \in {<<"localhost">>, <<"127", "0", "0", "1">>}
                 THEN registeredClients' =
                        [registeredClients EXCEPT ![c].redirect_uris =
                            Append(registeredClients[c].redirect_uris, uri)]
                 ELSE /\ last'.resp.status = 400
                      /\ registeredClients' = registeredClients
                      /\ pendingAuth' = pendingAuth ]_vars

\* an explicitly registered client that has had a loopback URI appended
\* has been refused a redirect URI on a host that merely starts with
\* "localhost"
C20_Witness ==
    /\ last.op = "authorize"
    /\ last.req.redirect_uri = "http://localhost.evil.example/cb"
    /\ last.resp.status = 400
    /\ last.req.client_id \in DOMAIN registeredClients
    /\ LET client == registeredClients[last.req.client_id] IN
         /\ client.client_secret # NULL
         /\ Len(client.redirect_uris) = 2
         /\ client.redirect_uris[1] = "https://app.example/cb"
         /\ URLHostname(client.redirect_uris[2]) = <<"localhost">>

----------------------------------------------------------------------------
(* C21: each /authorize request sweeps the pending-authorization table:    *)
(* once an /authorize request has been handled, no pending authorization   *)
(* that is past its 10-minute expiry is stored.  The handler never removes *)
(* a pending authorization (only /callback does, for the state it is       *)
(* called with), so this is violated.                                      *)
C21_AuthorizeSweepsPending ==
    [][ last'.op = "authorize"
        => \A st \in DOMAIN pendingAuth' : pendingAuth'[st].expires >= now ]_vars

(* C22: after a DELETE on /mcp answered 200 for a session, the session's   *)
(* transport is de-registered from the session table and closed, so that   *)
(* nothing is delivered through it any more.  The DELETE branch removes    *)
(* the table entry and never closes the transport, which stays open, so    *)
(* this is violated.                                                       *)
C22_DeleteClosesTransport ==
    [][ ( /\ last'.op = "mcp"
          /\ last'.req.method = "DELETE"
          /\ last'.resp.status = 200 )
        => /\ last'.req.mcpSessionId \notin DOMAIN transports'
           /\ last'.req.mcpSessionId \notin openTransports' ]_vars

(* C23: when a session's transport reports closure, exactly that session   *)
(* leaves the session table (nothing changes if a DELETE removed it        *)
(* before); a session whose transport has closed is never stored again,    *)
(* and every later request that is not an initialize and carries its       *)
(* identifier is answered as for an absent session: it reaches no          *)
(* transport, is answered 400 or 404 and changes nothing.                  *)
C23_TransportClosureRemovesSession ==
    /\ [][ \A t \in openTransports \ openTransports' :
             /\ DOMAIN transports' = DOMAIN transports \ {t}
             /\ \A o \in DOMAIN transports' : transports'[o] = transports[o] ]_vars
    /\ [](\A t \in SessionsCreated \ openTransports : t \notin DOMAIN transports)
    /\ [][ ( /\ last'.op = "mcp"
             /\ OriginPasses(last')
             /\ PresentsLiveToken(last')
             /\ Negotiates(last')
             /\ last'.req.method \in {"GET", "POST", "DELETE"}
             /\ ~(last'.req.method = "POST" /\ last'.req.bodyMethod = "initialize")
             /\ last'.req.mcpSessionId \in SessionsCreated \ openTransports )
           => /\ last'.resp.routed = NONE
              /\ last'.resp.status \in {400, 404}
              /\ transports' = transports
              /\ openTransports' = openTransports ]_vars

\* a POST carrying the identifier of a session whose transport has closed
\* has been answered 404 while another session is stored
C23_Witness ==
    /\ last.op = "mcp"
    /\ last.req.method = "POST"
    /\ last.resp.status = 404
    /\ last.req.mcpSessionId \in SessionsCreated \ openTransports
    /\ transports # EmptyMap

(* C24: a session identifier enters the session table only through an      *)
(* authenticated initialize POST, which adds exactly one session, under an *)
(* identifier never issued before, also when the request carries the       *)
(* header of a stored session, which stays as it was; the transport of a   *)
(* stored session never changes; and an identifier that has left the       *)
(* table is never stored again.                                            *)
C24_SessionStateMachine ==
    /\ [][ \A new \in DOMAIN transports' \ DOMAIN transports :
             /\ last'.op = "mcp"
             /\ last'.req.method = "POST"
             /\ last'.req.bodyMethod = "initialize"
             /\ OriginPasses(last')
             /\ PresentsLiveToken(last')
             /\ new \notin Issued
             /\ last'.resp.carries = new
             /\ DOMAIN transports' = DOMAIN transports \cup {new} ]_vars
    /\ [][ ( /\ last'.op = "mcp"
             /\ last'.req.method = "POST"
             /\ last'.req.bodyMethod = "initialize"
             /\ OriginPasses(last')
             /\ PresentsLiveToken(last')
             /\ Negotiates(last') )
           => \E new \in DOMAIN transports' \ DOMAIN transports :
                 new \notin Issued /\ new # last'.req.mcpSessionId ]_vars
    /\ [][ \A o \in DOMAIN transports \cap DOMAIN transports' :
             transports'[o] = transports[o] ]_vars
    /\ [][ \A o \in Issued \ DOMAIN transports :
             o \notin DOMAIN transports' ]_vars

\* an initialize POST carrying the header of a stored session has created
\* a second session
C24_Witness ==
    /\ last.op = "mcp"
    /\ last.req.bodyMethod = "initialize"
    /\ last.req.mcpSessionId \in DOMAIN transports
    /\ last.resp.carries \in DOMAIN transports
    /\ last.resp.carries # last.req.mcpSessionId

(* C25: content negotiation on /mcp comes before session handling: an      *)
(* authenticated GET whose Accept header lacks text/event-stream, and an   *)
(* authenticated POST whose Accept header has neither application/json nor *)
(* text/event-stream, is answered 406 whatever its session header and      *)
(* body, reaches no transport and changes nothing; an initialize POST      *)
(* refused so creates no session.                                          *)
C25_NegotiationBeforeSessions ==
    [][ ( /\ last'.op = "mcp"
          /\ OriginPasses(last')
          /\ PresentsLiveToken(last')
          /\ \/ /\ last'.req.method = "GET"
                /\ "text/event-stream" \notin last'.req.accept
             \/ /\ last'.req.method = "POST"
                /\ "application/json" \notin last'.req.accept
                /\ "text/event-stream" \notin last'.req.accept )
        => /\ last'.resp.status = 406
           /\ last'.resp.routed = NONE
           /\ transports' = transports
           /\ openTransports' = openTransports
           /\ nextUuid' = nextUuid ]_vars

\* an initialize POST with an Accept header of neither type, carrying the
\* header of a stored session, has been answered 406
C25_Witness ==
    /\ last.op = "mcp"
    /\ last.req.method = "POST"
    /\ last.req.bodyMethod = "initialize"
    /\ last.req.accept = {}
    /\ last.req.mcpSessionId \in DOMAIN transports
    /\ last.resp.status = 406

Kept(t, tAfter, named, added) ==
    /\ \A k \in DOMAIN t \ {named} : k \in DOMAIN tAfter /\ tAfter[k] = t[k]
    /\ Cardinality(DOMAIN tAfter \ (DOMAIN t \cup {named})) <= added

(* C27: handlers touch only the entries their request names.  /token       *)
(* changes nothing but the code entry it names and at most one newly added *)
(* token; /callback changes nothing but the pending record it names and at *)
(* most one newly added code; /authorize changes nothing but the registry  *)
(* entry of the client it names and at most one newly added pending        *)
(* record; /mcp changes the OAuth tables only by removing the token it     *)
(* presents, and only when that token has expired; /register, /authorize,  *)
(* /callback and /token never change the session table.                    *)
C27_HandlersTouchOnlyNamedEntries ==
    [][ /\ last'.op = "token"
          => /\ Kept(authCodes, authCodes', last'.req.code, 0)
             /\ DOMAIN authCodes' \subseteq DOMAIN authCodes
             /\ Kept(accessTokens, accessTokens', NONE, 1)
             /\ registeredClients' = registeredClients
             /\ pendingAuth' = pendingAuth
             /\ transports' = transports
        /\ last'.op = "callback"
          => /\ Kept(pendingAuth, pendingAuth', last'.req.state, 0)
             /\ DOMAIN pendingAuth' \subseteq DOMAIN pendingAuth
             /\ Kept(authCodes, authCodes', NONE, 1)
             /\ registeredClients' = registeredClients
             /\ accessTokens' = accessTokens
             /\ transports' = transports
        /\ last'.op = "authorize"
          => /\ Kept(registeredClients, registeredClients',
                     last'.req.client_id, 0)
             /\ DOMAIN registeredClients' \subseteq
                   DOMAIN registeredClients \cup {last'.req.client_id}
             /\ Kept(pendingAuth, pendingAuth', NONE, 1)
             /\ authCodes' = authCodes
             /\ accessTokens' = accessTokens
             /\ transports' = transports
        /\ last'.op = "mcp"
          => /\ registeredClients' = registeredClients
             /\ pendingAuth' = pendingAuth
             /\ authCodes' = authCodes
             /\ \/ accessTokens' = accessTokens
                \/ LET t == last'.req.authorization.credentials IN
                   /\ Has(accessTokens, t)
                   /\ accessTokens[t].expires < now
                   /\ accessTokens' = Del(accessTokens, t)
        /\ last'.op = "register"
          => /\ Kept(registeredClients, registeredClients', NONE, 1)
             /\ pendingAuth' = pendingAuth
             /\ authCodes' = authCodes
             /\ accessTokens' = accessTokens
             /\ transports' = transports ]_vars

\* /mcp has purged the expired token it was presented with while another
\* token stays stored and two clients are in the registry
C27_Witness ==
    /\ last.op = "mcp"
    /\ last.resp.status = 401
    /\ last.req.authorization.credentials \in TokensIssued \ DOMAIN accessTokens
    /\ accessTokens # EmptyMap
    /\ \E c, d \in DOMAIN registeredClients : c # d

\* the internal state tokens a /callback request may come with
LiveStates == {UUIDS[i] : i \in 1..Len(UUIDS)}

\* the /callback that came with state s has been answered for good
CallbackAnswered(s) ==
    /\ last.op = "callback"
    /\ last.req.state = s
    /\ \/ last.resp.status = 302
       \/ last.resp.status = 400 /\ last.resp.error = "token_exchange_failed"
       \/ last.resp.status = 500 /\ last.resp.error = "internal_error"

(* C28: given that every call to the identity edge eventually returns or   *)
(* fails, every /callback request that consumed a pending record           *)
(* eventually produces a response, which is a redirect to the client, a    *)
(* 400 token_exchange_failed or a 500 internal_error, and it produces only *)
(* one: a final response is produced by the continuation of a suspended    *)
(* request and ends it, and no two suspended requests stem from one        *)
(* pending record.  Other requests are served while it is suspended.       *)
C28_CallbackEventuallyAnswers ==
    /\ \A s \in LiveStates :
          ( /\ last.op = "callback"
            /\ last.req.state = s
            /\ last.resp.status = SUSPENDED ) ~> CallbackAnswered(s)
    /\ [][ ( /\ last'.op = "callback"
             /\ last'.resp.status # SUSPENDED
             /\ last'.req.exchange # NONE )
           => /\ \E f \in inflight :
                   /\ f.req.state = last'.req.state
                   /\ inflight' = inflight \ {f}
              /\ \/ last'.resp.status = 302
                 \/ /\ last'.resp.status = 400
                    /\ last'.resp.error = "token_exchange_failed"
                 \/ /\ last'.resp.status = 500
                    /\ last'.resp.error = "internal_error" ]_vars
    /\ [](\A f, g \in inflight : f.req.state = g.req.state => f = g)

\* a /callback has been redirected to the client while another /callback,
\* begun in the meantime, is still suspended on the identity edge
C28_Witness ==
    /\ CallbackFinished(last)
    /\ last.resp.status = 302
    /\ \E f \in inflight : f.req.state # last.req.state

(* C29: an /authorize request that is refused (400 or 503) leaves the      *)
(* client registry unchanged: no client is auto-registered and no redirect *)
(* URI is appended by a request that fails the PKCE check or arrives while *)
(* the identity edge is not configured.                                    *)
C29_RefusedAuthorizeLeavesRegistry ==
    [][ ( last'.op = "authorize" /\ last'.resp.status \in {400, 503} )
        => registeredClients' = registeredClients ]_vars

(* C30: the outcome of a /token request (the response, the code table and  *)
(* the token table afterwards) does not depend on the redirect_uri and the *)
(* client_secret it sends: it is the outcome of the request with the same  *)
(* grant_type, code, client_id and code_verifier and any other             *)
(* redirect_uri and client_secret, in the same state, also when the client *)
(* registered with a secret and the redirect_uri is not the one bound to   *)
(* the code.                                                               *)
C30_TokenIgnoresRedirectAndSecret ==
    [][ last'.op = "token"
        => \A r \in TokenRedirects, sec \in TokenSecrets :
              LET other == TokenOutcome(
                      [last'.req EXCEPT !.redirect_uri = r,
                                        !.client_secret = sec])
              IN /\ last'.resp = other.resp
                 /\ authCodes' = other.authCodes
                 /\ accessTokens' = other.accessTokens ]_vars

\* a client registered with a secret has redeemed a code with a wrong
\* secret and a redirect_uri that is not the one bound to the code
C30_Witness ==
    /\ last.op = "token"
    /\ last.resp.status = 200
    /\ last.req.client_id \in DOMAIN registeredClients
    /\ registeredClients[last.req.client_id].client_secret
          \notin {NULL, last.req.client_secret}
    /\ last.req.client_secret = "wrong-secret"
    /\ last.req.redirect_uri = "https://evil.example/cb"
    /\ last.resp.carries \in DOMAIN accessTokens

(* C31: sessions are not bound to the identity that created them.  A       *)
(* non-initialize POST, a GET or a DELETE on /mcp that passes the origin   *)
(* filter and content negotiation, presents a stored unexpired token and   *)
(* carries the identifier of a stored session is routed to that session    *)
(* (POST, GET) or removes it from the table (DELETE, answered 200),        *)
(* whoever the token's user and client are.                                *)
C31_SessionsNotBoundToIdentity ==
    [][ ( /\ last'.op = "mcp"
          /\ last'.req.method \in {"GET", "POST", "DELETE"}
          /\ ~(last'.req.method = "POST" /\ last'.req.bodyMethod = "initialize")
          /\ OriginPasses(last')
          /\ PresentsLiveToken(last')
          /\ Negotiates(last')
          /\ last'.req.mcpSessionId \in DOMAIN transports )
        => IF last'.req.method = "DELETE"
           THEN /\ last'.resp.status = 200
                /\ last'.req.mcpSessionId \notin DOMAIN transports'
           ELSE /\ last'.resp.status = 200
                /\ last'.resp.routed = last'.req.mcpSessionId
                /\ transports' = transports ]_vars

\* a request has been routed to a session created with another token, of
\* another user and another client
C31_Witness ==
    /\ last.op = "mcp"
    /\ last.req.method \in {"GET", "POST"}
    /\ last.req.bodyMethod # "initialize"
    /\ last.resp.routed = last.req.mcpSessionId
    /\ last.req.mcpSessionId \in DOMAIN transports
    /\ LET t == last.req.authorization.credentials IN
       \E h \in Minted("session") :
          /\ h.id = last.req.mcpSessionId
          /\ h.from # t
          /\ h.from \in DOMAIN accessTokens
          /\ t \in DOMAIN accessTokens
          /\ accessTokens[t].user # h.user
          /\ accessTokens[t].client_id # accessTokens[h.from].client_id

(* C32: provenance.  In every reachable state each stored access token     *)
(* has the client_id and user of an authorization code that was minted and *)
(* has been redeemed, and each code ever minted was stored with the fields *)
(* it was minted with, for a state that is no longer pending.  Step by     *)
(* step: a pending authorization enters its table only by an /authorize    *)
(* answered 302, with the client_id, redirect_uri and code_challenge of    *)
(* the request; a /callback is suspended only by consuming a stored        *)
(* pending authorization, which it carries unchanged; a code enters its    *)
(* table only when a suspended /callback whose code exchange with the edge *)
(* succeeded finishes, with the client_id, redirect_uri and code_challenge *)
(* of the pending authorization that /callback consumed; a token enters    *)
(* its table only by a /token answered 200 that names a stored code; and   *)
(* stored records never change.                                            *)
C32_Provenance ==
    /\ [](\A t \in DOMAIN accessTokens :
            \E h \in Minted("token"), g \in Minted("code") :
               /\ h.id = t
               /\ g.id = h.from
               /\ g.id \notin DOMAIN authCodes
               /\ accessTokens[t].client_id = g.client_id
               /\ accessTokens[t].user = g.user)
    /\ [](\A g \in Minted("code") :
            /\ g.from \in Issued \ DOMAIN pendingAuth
            /\ g.id \in DOMAIN authCodes
                  => /\ authCodes[g.id].client_id = g.client_id
                     /\ authCodes[g.id].redirect_uri = g.redirect_uri
                     /\ authCodes[g.id].code_challenge = g.code_challenge
                     /\ authCodes[g.id].user = g.user)
    /\ [](\A c \in DOMAIN authCodes : \E g \in Minted("code") : g.id = c)
    /\ [][ /\ \A st \in DOMAIN pendingAuth' \ DOMAIN pendingAuth :
               /\ last'.op = "authorize"
               /\ last'.resp.status = 302
               /\ last'.resp.state = st
               /\ pendingAuth'[st].client_id = last'.req.client_id
               /\ pendingAuth'[st].redirect_uri = last'.req.redirect_uri
               /\ pendingAuth'[st].code_challenge = last'.req.code_challenge
           /\ \A f \in inflight' :
               IF \E g \in inflight : g.req.state = f.req.state
               THEN \E g \in inflight :
                       g.req.state = f.req.state /\ g.pending = f.pending
               ELSE /\ CallbackBegun(last')
                    /\ last'.req.state = f.req.state
                    /\ Has(pendingAuth, f.req.state)
                    /\ f.pending = pendingAuth[f.req.state]
                    /\ f.req.state \notin DOMAIN pendingAuth'
           /\ \A c \in DOMAIN authCodes' \ DOMAIN authCodes :
               /\ CallbackFinished(last')
               /\ last'.req.exchange = "ok"
               /\ \E f \in inflight \ inflight' :
                     /\ f.req.state = last'.req.state
                     /\ authCodes'[c].client_id = f.pending.client_id
                     /\ authCodes'[c].redirect_uri = f.pending.redirect_uri
                     /\ authCodes'[c].code_challenge =
                           f.pending.code_challenge
           /\ \A t \in DOMAIN accessTokens' \ DOMAIN accessTokens :
               /\ last'.op = "token"
               /\ last'.resp.status = 200
               /\ last'.resp.carries = t
               /\ last'.req.code \in DOMAIN authCodes
           /\ \A st \in DOMAIN pendingAuth \cap DOMAIN pendingAuth' :
               pendingAuth'[st] = pendingAuth[st]
           /\ \A c \in DOMAIN authCodes \cap DOMAIN authCodes' :
               authCodes'[c] = authCodes[c]
           /\ \A t \in DOMAIN accessTokens \cap DOMAIN accessTokens' :
               accessTokens'[t] = accessTokens[t] ]_vars

\* two clients hold a token each, redeemed from codes minted from their
\* own authorizations, with different redirect URIs
C32_Witness ==
    \E t, u \in DOMAIN accessTokens :
       /\ accessTokens[t].client_id # accessTokens[u].client_id
       /\ \E g, k \in Minted("code") :
             /\ g.client_id = accessTokens[t].client_id
             /\ k.client_id = accessTokens[u].client_id
             /\ g.redirect_uri # k.redirect_uri
             /\ g.id \notin DOMAIN authCodes
             /\ k.id \notin DOMAIN authCodes

(* C33: every redirect that carries an authorization code goes to a URI    *)
(* that is among the redirect_uris of the client the code was minted for,  *)
(* and was there when the corresponding /authorize was accepted: an        *)
(* /authorize answered 302 names a client whose redirect_uris hold the     *)
(* requested URI; redirect_uris gain a URI whose host is not localhost or  *)
(* 127.0.0.1 only at the client's explicit registration; so a code is      *)
(* never delivered to a non-loopback URI that the client did not register. *)
C33_CodeDeliveredToRegisteredUri ==
    /\ [][ ( /\ CallbackFinished(last')
             /\ last'.resp.status = 302 )
           => LET u == last'.resp.location
                  c == authCodes'[last'.resp.carries].client_id
              IN /\ last'.resp.carries \in DOMAIN authCodes' \ DOMAIN authCodes
                 /\ c \in DOMAIN registeredClients
                 /\ \E i \in DOMAIN registeredClients[c].redirect_uris :
                       registeredClients[c].redirect_uris[i] = u
                 /\ \/ URLHostname(u) \in
                          {<<"localhost">>, <<"127", "0", "0", "1">>}
                    \/ registeredClients[c].client_secret # NULL ]_vars
    /\ [][ ( last'.op = "authorize" /\ last'.resp.status = 302 )
           => LET c == last'.req.client_id IN
              /\ c \in DOMAIN registeredClients'
              /\ \E i \in DOMAIN registeredClients'[c].redirect_uris :
                    registeredClients'[c].redirect_uris[i] =
                       last'.req.redirect_uri
              /\ pendingAuth'[last'.resp.state].redirect_uri =
                    last'.req.redirect_uri ]_vars
    /\ [][ \A c \in DOMAIN registeredClients' :
             \A i \in DOMAIN registeredClients'[c].redirect_uris :
                LET u == registeredClients'[c].redirect_uris[i] IN
                \/ /\ c \in DOMAIN registeredClients
                   /\ \E j \in DOMAIN registeredClients[c].redirect_uris :
                         registeredClients[c].redirect_uris[j] = u
                \/ URLHostname(u) \in
                      {<<"localhost">>, <<"127", "0", "0", "1">>}
                \/ last'.op = "register" /\ last'.resp.carries = c ]_vars

\* a code has been delivered to the non-loopback URI of a client that
\* registered it
C33_Witness ==
    /\ CallbackFinished(last)
    /\ last.resp.status = 302
    /\ last.resp.location = AppUri
    /\ last.resp.carries \in DOMAIN authCodes
    /\ registeredClients[authCodes[last.resp.carries].client_id].client_secret
          # NULL

(* C34: the client registry is monotone.  In every step each registered    *)
(* client stays registered with the same client_secret, and its            *)
(* redirect_uris keep every element in place (new ones are appended);      *)
(* /register and the auto-registration of /authorize add entries under     *)
(* identifiers that were not registered and leave the others as they were. *)
C34_RegistryMonotone ==
    /\ [][ \A c \in DOMAIN registeredClients :
             /\ c \in DOMAIN registeredClients'
             /\ registeredClients'[c].client_secret =
                   registeredClients[c].client_secret
             /\ Len(registeredClients'[c].redirect_uris) >=
                   Len(registeredClients[c].redirect_uris)
             /\ \A i \in DOMAIN registeredClients[c].redirect_uris :
                   registeredClients'[c].redirect_uris[i] =
                      registeredClients[c].redirect_uris[i] ]_vars
    /\ [][ last'.op = "register"
           => /\ \A c \in DOMAIN registeredClients :
                    registeredClients'[c] = registeredClients[c]
              /\ last'.resp.status = 201
                    => last'.resp.carries \notin DOMAIN registeredClients ]_vars

\* a client that registered with a secret and a URI of its own has had a
\* loopback URI appended by /authorize, next to an auto-registered client
C34_Witness ==
    /\ last.op = "authorize"
    /\ last.req.client_id \in DOMAIN registeredClients
    /\ LET client == registeredClients[last.req.client_id] IN
       /\ client.client_secret # NULL
       /\ Len(client.redirect_uris) = 2
       /\ client.redirect_uris[1] = "https://app.example/cb"
       /\ client.redirect_uris[2] = last.req.redirect_uri
    /\ \E c \in DOMAIN registeredClients :
          registeredClients[c].client_secret = NULL

(* C35, as stated: a /callback request carrying an error parameter is      *)
(* answered 400 and changes no table.  The handler tests the parameter for *)
(* truthiness, so a request with an empty error parameter goes on to the   *)
(* state lookup and consumes the pending authorization.                    *)
C35_ErrorCallbackChangesNothing ==
    [][ ( CallbackBegun(last') /\ last'.req.error # NONE )
        => /\ last'.resp.status = 400
           /\ registeredClients' = registeredClients
           /\ pendingAuth' = pendingAuth
           /\ authCodes' = authCodes
           /\ accessTokens' = accessTokens
           /\ transports' = transports ]_vars

(* C35, amended: a /callback request carrying a non-empty error parameter  *)
(* is answered 400 with that error and changes no table, suspends nothing  *)
(* and mints nothing; and a /callback without one whose state names a      *)
(* stored pending authorization that has not expired consumes it, so the   *)
(* record named by a refused request can still be consumed until its TTL   *)
(* passes.                                                                 *)
C35_NonEmptyErrorCallbackChangesNothing ==
    /\ [][ ( /\ CallbackBegun(last')
             /\ last'.req.error # NONE
             /\ last'.req.error # "" )
           => /\ last'.resp.status = 400
              /\ last'.resp.error = last'.req.error
              /\ registeredClients' = registeredClients
              /\ pendingAuth' = pendingAuth
              /\ authCodes' = authCodes
              /\ accessTokens' = accessTokens
              /\ transports' = transports
              /\ inflight' = inflight
              /\ mintLog' = mintLog ]_vars
    /\ [][ ( /\ CallbackBegun(last')
             /\ last'.req.error \in {NONE, ""}
             /\ last'.req.state \in DOMAIN pendingAuth
             /\ pendingAuth[last'.req.state].expires >= now )
           => /\ last'.resp.status = SUSPENDED
              /\ last'.req.state \notin DOMAIN pendingAuth'
              /\ \E f \in inflight' \ inflight :
                    /\ f.req.state = last'.req.state
                    /\ f.pending = pendingAuth[last'.req.state] ]_vars

\* a /callback with an error code has been refused at the very instant
\* the pending authorization it names expires, and the record is still
\* stored
C35_Witness ==
    /\ CallbackBegun(last)
    /\ last.req.error = "access_denied"
    /\ last.resp.status = 400
    /\ last.req.state \in DOMAIN pendingAuth
    /\ pendingAuth[last.req.state].expires = now

(* C36: expiry comparisons are strict.  A pending authorization and a code *)
(* are stored with expiry = time of issuance + 10 minutes, a token with    *)
(* time of issuance + 1 hour.  A stored pending authorization named by a   *)
(* /callback, a stored code named by a /token request and a stored token   *)
(* presented to /mcp are treated as expired exactly when the stored expiry *)
(* is less than the time of use: at the expiry instant itself they are     *)
(* still accepted, and at any later time they are rejected and removed.    *)
C36_ExpiryIsStrict ==
    /\ [][ /\ \A k \in DOMAIN pendingAuth' \ DOMAIN pendingAuth :
               pendingAuth'[k].expires = now + 600000
           /\ \A k \in DOMAIN authCodes' \ DOMAIN authCodes :
               authCodes'[k].expires = now + 600000
           /\ \A k \in DOMAIN accessTokens' \ DOMAIN accessTokens :
               accessTokens'[k].expires = now + 3600000 ]_vars
    /\ [][ ( /\ CallbackBegun(last')
             /\ last'.req.error = NONE
             /\ last'.req.state \in DOMAIN pendingAuth )
           => IF pendingAuth[last'.req.state].expires < now
              THEN /\ last'.resp.status = 400
                   /\ last'.resp.error = "invalid_state"
                   /\ last'.req.state \notin DOMAIN pendingAuth'
                   /\ inflight' = inflight
              ELSE /\ last'.resp.status = SUSPENDED
                   /\ \E f \in inflight' \ inflight :
                         f.req.state = last'.req.state ]_vars
    /\ [][ ( /\ last'.op = "token"
             /\ last'.req.grant_type = "authorization_code"
             /\ last'.req.code \in DOMAIN authCodes
             /\ last'.req.client_id = authCodes[last'.req.code].client_id
             /\ S256(last'.req.code_verifier) =
                   authCodes[last'.req.code].code_challenge )
           => IF authCodes[last'.req.code].expires < now
              THEN /\ last'.resp.status = 400
                   /\ last'.resp.error = "invalid_grant"
                   /\ last'.req.code \notin DOMAIN authCodes'
                   /\ accessTokens' = accessTokens
              ELSE /\ last'.resp.status = 200
                   /\ last'.resp.carries \in DOMAIN accessTokens' ]_vars
    /\ [][ ( /\ last'.op = "mcp"
             /\ OriginPasses(last')
             /\ last'.req.authorization.scheme = "Bearer"
             /\ last'.req.authorization.credentials \in DOMAIN accessTokens )
           => LET t == last'.req.authorization.credentials IN
              IF accessTokens[t].expires < now
              THEN /\ last'.resp.status = 401
                   /\ t \notin DOMAIN accessTokens'
              ELSE /\ last'.resp.status # 401
                   /\ accessTokens' = accessTokens ]_vars

\* a token presented at the instant it expires has been admitted; it was
\* redeemed from a code at the instant that code expired, and the code was
\* minted ten minutes after the server started
C36_Witness ==
    /\ last.op = "mcp"
    /\ last.resp.status # 401
    /\ LET t == last.req.authorization.credentials IN
       /\ t \in DOMAIN accessTokens
       /\ accessTokens[t].expires = now
       /\ \E h \in Minted("token"), g \in Minted("code") :
             /\ h.id = t
             /\ g.id = h.from
             /\ h.at = g.at + 600000
             /\ g.at = 600000

====
